---------------------------- MODULE Spec2Model ----------------------------
(***************************************************************************)
(* DailySync-UPSC: the retrying content pipeline                           *)
(* (services/content.py), the reviewers (agents/review.py), the            *)
(* generators and the extractor (agents/*.py), the fenced-JSON helper      *)
(* (utils/utils.py) and the store write (services/db_service.py).          *)
(*                                                                         *)
(* Python values are records with a tag, so that values of different       *)
(* Python types can be told apart without comparing unlike TLA+ values:    *)
(*   a JSON list      [shape |-> "list", items |-> <<...>>, ...]           *)
(*   a JSON object    [shape |-> "dict", keys |-> {...}, ...]              *)
(*   any other JSON   shape "other" (null, a number, a bool)               *)
(* Scores are numbers in hundredths (accuracy_score 0.95 is 95).           *)
(* A response text of the generation client is a sequence of tokens; the   *)
(* token "D" stands for the text of one well-formed JSON document, whose   *)
(* value travels beside the text (resp.doc).                               *)
(***************************************************************************)
EXTENDS Integers, Sequences, FiniteSets, TLC

MAX_RETRIES == 3
RETRY_DELAY == 5

\* Bounds of the model.
MaxSections == 2
MaxTextLen == 4

(***************************************************************************)
(* Tokens of a response text.                                              *)
(***************************************************************************)
\* FENCE is the three-backtick delimiter, TAG the word json right after it.
FENCE == "fence"
TAG == "json"
WS == " "
TXT == "x"
DOC == "D"
Tokens == {FENCE, TAG, WS, TXT, DOC}

PyNone == [t |-> "None"]
PyStr(s) == [t |-> "str", s |-> s]
Raise(exc) == [t |-> "raise", exc |-> exc]
Return(v) == [t |-> "ret", v |-> v]

\* Every exception class the pipeline meets derives from Exception.
ExceptionClasses ==
    {"Exception", "ValueError", "TypeError", "KeyError", "AttributeError",
     "JSONDecodeError", "APIError"}

RECURSIVE LStrip(_)
LStrip(s) == IF s # <<>> /\ Head(s) = WS THEN LStrip(Tail(s)) ELSE s

RECURSIVE RStrip(_)
RStrip(s) ==
    IF s # <<>> /\ s[Len(s)] = WS THEN RStrip(SubSeq(s, 1, Len(s) - 1)) ELSE s

\* str.strip()
Strip(s) == LStrip(RStrip(s))

Min(S) == CHOOSE m \in S : \A k \in S : m <= k

\* re.search(FENCE json \s* (.*?) \s* FENCE, text, re.DOTALL): the leftmost opening
\* fence tagged json that has a closing fence after it, and the first such
\* closing fence.
BlockStarts(text) ==
    {i \in 1..(Len(text) - 1) :
        /\ text[i] = FENCE
        /\ text[i + 1] = TAG
        /\ \E j \in (i + 2)..Len(text) : text[j] = FENCE}

\* Variant: the empty string where there is no block.
extract_json_block_or_empty(text) ==
    IF BlockStarts(text) = {}
    THEN PyStr(<<>>)
    ELSE LET i == Min(BlockStarts(text))
             j == Min({k \in (i + 2)..Len(text) : text[k] = FENCE})
         IN  PyStr(Strip(SubSeq(text, i + 2, j - 1)))

extract_json_block(text) ==
    IF BlockStarts(text) = {}
    THEN PyNone
    ELSE LET i == Min(BlockStarts(text))
             j == Min({k \in (i + 2)..Len(text) : text[k] = FENCE})
         IN  PyStr(Strip(SubSeq(text, i + 2, j - 1)))

\* json.loads(s): s is None raises TypeError, one document parses to its
\* value, anything else (the empty string too) raises JSONDecodeError.
json_loads(payload, doc) ==
    IF payload.t = "None" THEN Raise("TypeError")
    ELSE IF Strip(payload.s) = <<DOC>> THEN Return(doc)
    ELSE Raise("JSONDecodeError")

\* Python truth value of an Optional[str].
Falsy(payload) == payload.t = "None" \/ payload.s = <<>>

(***************************************************************************)
(* JSON values of the pipeline.                                            *)
(***************************************************************************)
JList(items) == [shape |-> "list", items |-> items, truthy |-> items # <<>>]
JOther(truthy) == [shape |-> "other", items |-> <<>>, truthy |-> truthy]

NoTitle == [k |-> "none", n |-> 0]

\* A card, a mind map or a question as a generator returns it in attempt att:
\* it carries no section reference yet. rev marks an object rewritten by a
\* reviewer.
Item(id, att) ==
    [shape |-> "dict", id |-> id, att |-> att, rev |-> FALSE,
     section_index |-> -1, section_title |-> NoTitle]

\* A prelims question as create_pyq returns it: options is the set of the
\* keys of its "options" object, correct_answer its "correct_answer".
Question(id, att, options, correct_answer) ==
    [shape |-> "dict", id |-> id, att |-> att, rev |-> FALSE,
     section_index |-> -1, section_title |-> NoTitle,
     options |-> options, correct_answer |-> correct_answer]

\* A JSON value that is no object, where an object is expected.
NotADict(att) ==
    [shape |-> "other", id |-> 0, att |-> att, rev |-> FALSE,
     section_index |-> -1, section_title |-> NoTitle]

Sec(id, keys, att) ==
    [shape |-> "dict", keys |-> keys, title |-> id, att |-> att, rev |-> FALSE,
     content |-> [shape |-> "list", strs |-> TRUE]]

PyqDict(keys, prelims, mains) ==
    [shape |-> "dict", keys |-> keys, prelims |-> prelims, mains |-> mains]

PyqOther == [shape |-> "other", keys |-> {}, prelims |-> JOther(FALSE), mains |-> JOther(FALSE)]

Notes(keys, issues, corrections, accuracy, second) ==
    [shape |-> "dict", keys |-> keys, issues_found |-> issues,
     corrections_made |-> corrections, accuracy_score |-> accuracy,
     second_score |-> second]

ReviewDict(keys, corrected, notes) ==
    [shape |-> "dict", keys |-> keys, corrected |-> corrected, review_notes |-> notes]

\* What a generation call does: the client raises, or it returns a response.
ClientRaises == [t |-> "raise", exc |-> "APIError", text |-> <<>>, doc |-> JOther(FALSE)]
Response(text, doc) == [t |-> "resp", exc |-> "", text |-> text, doc |-> doc]
Behaviours(texts, docs) ==
    {ClientRaises} \cup {Response(text, doc) : text \in texts, doc \in docs}

(***************************************************************************)
(* agents/analyse.py, agents/cards.py, agents/mindmap.py, agents/pyq.py    *)
(***************************************************************************)
\* The section counts the prompt of extract_sections asks the model for.
MIN_SECTIONS == 4
MAX_SECTIONS == 8

extract_sections(b) ==
    IF b.t = "raise" THEN Raise(b.exc)
    ELSE LET r == json_loads(extract_json_block(b.text), b.doc)
         IN  IF r.t = "raise" /\ r.exc = "JSONDecodeError"
             THEN Raise("ValueError")
             ELSE r

create_cards(b) ==
    IF b.t = "raise" THEN Raise(b.exc)
    ELSE json_loads(extract_json_block(b.text), b.doc)

create_mindmap(b) ==
    IF b.t = "raise" THEN Raise(b.exc)
    ELSE json_loads(extract_json_block(b.text), b.doc)

create_pyq(b) ==
    IF b.t = "raise" THEN Raise(b.exc)
    ELSE json_loads(extract_json_block(b.text), b.doc)

(***************************************************************************)
(* agents/review.py                                                        *)
(***************************************************************************)
FAILED_TO_PARSE == "Failed to parse review response"
INVALID_JSON == "Invalid JSON in review response"

ReviewNotes(msg, second_key) ==
    [shape |-> "dict",
     keys |-> {"issues_found", "corrections_made", "accuracy_score", second_key},
     issues_found |-> <<msg>>,
     corrections_made |-> <<>>,
     accuracy_score |-> 0,
     second_score |-> 0]

\* The dict the reviewers return when the response cannot be used.
Fallback(corrected_key, content, msg, second_key) ==
    [shape |-> "dict",
     keys |-> {corrected_key, "review_notes"},
     corrected |-> content,
     review_notes |-> ReviewNotes(msg, second_key)]

\* Variant of Review that decodes the block as the generators do, with no
\* handler around json.loads.
ReviewUnguarded(corrected_key, second_key, content, b) ==
    IF b.t = "raise" THEN Raise(b.exc)
    ELSE LET json_payload == extract_json_block(b.text)
         IN  IF Falsy(json_payload)
             THEN Return(Fallback(corrected_key, content, FAILED_TO_PARSE, second_key))
             ELSE json_loads(json_payload, b.doc)

\* The body the four reviewers share: the generation call (whose error is
\* not caught here), then the fallbacks.
Review(corrected_key, second_key, content, b) ==
    IF b.t = "raise" THEN Raise(b.exc)
    ELSE LET json_payload == extract_json_block(b.text)
         IN  IF Falsy(json_payload)
             THEN Return(Fallback(corrected_key, content, FAILED_TO_PARSE, second_key))
             ELSE LET result == json_loads(json_payload, b.doc)
                  IN  IF result.t = "ret"
                      THEN result
                      ELSE Return(Fallback(corrected_key, content, INVALID_JSON,
                                           second_key))

review_sections(sections, b) ==
    Review("corrected_sections", "completeness_score", sections, b)

review_cards(cards, b) ==
    Review("corrected_cards", "quality_score", cards, b)

review_mindmap(mindmap, b) ==
    Review("corrected_mindmap", "structure_score", mindmap, b)

review_pyq(pyq, b) ==
    Review("corrected_pyq", "quality_score", pyq, b)

review_and_correct_content(content_type, content, b) ==
    CASE content_type = "sections" -> review_sections(content, b)
      [] content_type = "cards" -> review_cards(content, b)
      [] content_type = "mindmap" -> review_mindmap(content, b)
      [] content_type = "pyq" -> review_pyq(content, b)
      [] OTHER -> Raise("ValueError")

(***************************************************************************)
(* scrap/scrap.py                                                          *)
(***************************************************************************)
\* website_urls, in the order the dict is written.
website_urls == <<"drishti", "indianexpress">>

RECURSIVE Scraped(_, _)
Scraped(sites, ok) ==
    IF sites = <<>> THEN <<>>
    ELSE (IF ok[Head(sites)] THEN <<Head(sites)>> ELSE <<>>) \o Scraped(Tail(sites), ok)

\* ok[site]: scrape_article returned a file that could be read. The corpus is
\* the texts of the sites that worked, joined in order.
scrape_all_articles(ok) ==
    LET articles == Scraped(website_urls, ok)
    IN  IF articles = <<>> THEN Raise("Exception") ELSE Return(articles)

(***************************************************************************)
(* services/db_service.py                                                  *)
(***************************************************************************)
DateKeys == {"13-10-2025", "14-10-2025", "01-11-2025", "31-12-2024"}

\* The characters of a document id: a digit as its value, the hyphen, which
\* sorts before every digit, as -1.
Chars(d) ==
    CASE d = "13-10-2025" -> <<1, 3, -1, 1, 0, -1, 2, 0, 2, 5>>
      [] d = "14-10-2025" -> <<1, 4, -1, 1, 0, -1, 2, 0, 2, 5>>
      [] d = "01-11-2025" -> <<0, 1, -1, 1, 1, -1, 2, 0, 2, 5>>
      [] d = "31-12-2024" -> <<3, 1, -1, 1, 2, -1, 2, 0, 2, 4>>

\* a < b for two str of the same length: the first character that differs
\* decides.
StrLess(a, b) ==
    \E i \in 1..Len(Chars(a)) :
        /\ Chars(a)[i] < Chars(b)[i]
        /\ \A j \in 1..(i - 1) : Chars(a)[j] = Chars(b)[j]

Absent == [exists |-> FALSE, data |-> <<>>]

\* A map of the model whose keys vary from write to write: pyq, when it is a
\* JSON object.
IsMap(v) == v.shape = "dict"

\* The leaves of data make the update mask of set(data, merge=True): a map
\* inside data is merged key by key with the map stored under the same
\* field, while an empty map, a list or a scalar replaces what is stored.
MergeMap(old, new) ==
    IF IsMap(old) /\ IsMap(new) /\ new.keys # {}
    THEN PyqDict(old.keys \cup new.keys,
                 IF "prelims" \in new.keys THEN new.prelims ELSE old.prelims,
                 IF "mains" \in new.keys THEN new.mains ELSE old.mains)
    ELSE new

\* doc_ref.set(data, merge=True): the fields of data overlay the document.
\* mindmap and overall_review have the same keys in every write, so that
\* merging them is replacing them.
SetMerge(old, data) ==
    [exists |-> TRUE,
     data |-> [f \in (DOMAIN old.data) \cup (DOMAIN data) |->
                  IF f \notin DOMAIN data THEN old.data[f]
                  ELSE IF f = "pyq" /\ f \in DOMAIN old.data
                       THEN MergeMap(old.data[f], data[f])
                       ELSE data[f]]]

\* Variant: a document that exists is left alone and reported as a failure.
save_daily_content_if_absent(store, d, secs, cards, mindmap, pyq, overall_review, now, store_ok) ==
    IF store_ok /\ ~store[d].exists
    THEN [success |-> TRUE,
          db |-> [store EXCEPT ![d] =
                    SetMerge(@, [date |-> d, sections |-> secs, cards |-> cards,
                                 mindmap |-> mindmap, pyq |-> pyq,
                                 overall_review |-> overall_review,
                                 created_at |-> now, updated_at |-> now])]]
    ELSE [success |-> FALSE, db |-> store]

\* Variant: every date is written to the one document 13-10-2025.
save_daily_content_one_document(store, d, secs, cards, mindmap, pyq, overall_review, now, store_ok) ==
    IF store_ok
    THEN [success |-> TRUE,
          db |-> [store EXCEPT !["13-10-2025"] =
                    SetMerge(@, [date |-> d, sections |-> secs, cards |-> cards,
                                 mindmap |-> mindmap, pyq |-> pyq,
                                 overall_review |-> overall_review,
                                 created_at |-> now, updated_at |-> now])]]
    ELSE [success |-> FALSE, db |-> store]

\* store_ok: the Firestore call went through. An error of the store is caught
\* and reported as False.
save_daily_content(store, d, secs, cards, mindmap, pyq, overall_review, now, store_ok) ==
    IF store_ok
    THEN [success |-> TRUE,
          db |-> [store EXCEPT ![d] =
                    SetMerge(@, [date |-> d, sections |-> secs, cards |-> cards,
                                 mindmap |-> mindmap, pyq |-> pyq,
                                 overall_review |-> overall_review,
                                 created_at |-> now, updated_at |-> now])]]
    ELSE [success |-> FALSE, db |-> store]

\* isoformat() of a timestamp.
IsoFormat(t) == [iso |-> t]

\* read_ok: the Firestore read went through. An error of the store is caught
\* and reported as None.
get_daily_content(store, d, read_ok) ==
    IF ~read_ok \/ ~store[d].exists THEN PyNone
    ELSE Return([f \in DOMAIN store[d].data |->
                    IF f \in {"created_at", "updated_at"}
                    THEN IsoFormat(store[d].data[f])
                    ELSE store[d].data[f]])

RECURSIVE SortedReverse(_)
\* sorted(dates, reverse=True) of str that are all different.
SortedReverse(S) ==
    IF S = {} THEN <<>>
    ELSE LET top == CHOOSE a \in S : \A b \in S \ {a} : StrLess(b, a)
         IN  <<top>> \o SortedReverse(S \ {top})

\* An error of the store is caught and reported as the empty list.
get_all_dates(store, read_ok) ==
    IF ~read_ok THEN <<>>
    ELSE SortedReverse({d \in DOMAIN store : store[d].exists})

(***************************************************************************)
(* agents/review.py: the overall metrics of review_all_content             *)
(***************************************************************************)
RECURSIVE FirstRaise(_)
\* The first exception of a sequence of outcomes, and Return(<<values>>) if
\* there is none.
FirstRaise(outs) ==
    IF outs = <<>> THEN Return(<<>>)
    ELSE IF Head(outs).t = "raise" THEN Head(outs)
    ELSE LET rest == FirstRaise(Tail(outs))
         IN  IF rest.t = "raise" THEN rest ELSE Return(<<Head(outs).v>> \o rest.v)

RECURSIVE Sum(_)
Sum(seq) == IF seq = <<>> THEN 0 ELSE Head(seq) + Sum(Tail(seq))

\* result["review_notes"]
NotesOf(rr) ==
    IF rr.shape # "dict" THEN Raise("TypeError")
    ELSE IF "review_notes" \notin rr.keys THEN Raise("KeyError")
    ELSE Return(rr.review_notes)

\* notes.get(...)
NotesGet(notes) ==
    IF notes.shape # "dict" THEN Raise("AttributeError") ELSE Return(notes)

\* Variants: one issue counted per notes object; a full score for notes
\* without one.
IssuesCountOne(notes) ==
    IF "issues_found" \in notes.keys THEN 1 ELSE 0

AccuracyScoreFull(notes) ==
    IF "accuracy_score" \in notes.keys THEN notes.accuracy_score ELSE 100

IssuesCount(notes) ==
    IF "issues_found" \in notes.keys THEN Len(notes.issues_found) ELSE 0

CorrectionsCount(notes) ==
    IF "corrections_made" \in notes.keys THEN Len(notes.corrections_made) ELSE 0

AccuracyScore(notes) ==
    IF "accuracy_score" \in notes.keys THEN notes.accuracy_score ELSE 0

\* average_accuracy is the quotient num / den.
OverallReview(res) ==
    LET all == <<res.sections, res.cards, res.pyq>> \o res.mindmaps
        got == FirstRaise([i \in 1..Len(all) |-> NotesOf(all[i])])
    IN  IF got.t = "raise" THEN got
        ELSE LET usable == FirstRaise([i \in 1..Len(got.v) |-> NotesGet(got.v[i])])
             IN  IF usable.t = "raise" THEN usable
                 ELSE LET all_notes == usable.v
                          n == Len(all_notes)
                      IN  Return(
                            [total_issues |->
                                Sum([i \in 1..n |-> IssuesCount(all_notes[i])]),
                             total_corrections |->
                                Sum([i \in 1..n |-> CorrectionsCount(all_notes[i])]),
                             average_accuracy |->
                                [num |-> Sum([i \in 1..n |-> AccuracyScore(all_notes[i])]),
                                 den |-> n]])

(***************************************************************************)
(* services/content.py                                                     *)
(***************************************************************************)
\* Variants of the handler: one that never retries, one that retries once,
\* one that handles ValueError alone.
OnExceptionNoRetry(att, exc) ==
    IF exc \in ExceptionClasses THEN "None" ELSE "propagate"

OnExceptionOneRetry(att, exc) ==
    IF exc \in ExceptionClasses
    THEN (IF att < MAX_RETRIES - 2 THEN "sleep" ELSE "None")
    ELSE "propagate"

OnExceptionValueError(att, exc) ==
    IF exc = "ValueError"
    THEN (IF att < MAX_RETRIES - 1 THEN "sleep" ELSE "None")
    ELSE "propagate"

\* except Exception: every class of ExceptionClasses is caught.
OnException(att, exc) ==
    IF exc \in ExceptionClasses
    THEN (IF att < MAX_RETRIES - 1 THEN "sleep" ELSE "None")
    ELSE "propagate"

\* if not sections: ...
\* Variant: no retry after an empty extraction.
OnEmptyGivesUp(att) == "None"

\* Variant: one more attempt after the last.
OnEmptyOnceMore(att) == IF att < MAX_RETRIES THEN "sleep" ELSE "None"

OnEmpty(att) == IF att < MAX_RETRIES - 1 THEN "sleep" ELSE "None"

\* Variant: a failed save that is not retried.
OnSaveFailedNoRetry(att) == "None"

\* if not success: ...
OnSaveFailed(att) == IF att < MAX_RETRIES - 1 THEN "sleep" ELSE "None"

\* bool(sections)
Truthy(v) == IF v.shape = "list" THEN v.items # <<>> ELSE v.truthy

\* Variant: aggregates that are kept from one attempt to the next.
KeepList(old) == old

\* all_cards = [], all_mindmaps = [], all_pyqs = {"prelims": [], "mains": []}
NewList(old) == <<>>

\* section.get("title", f"Section {section_index + 1}")
SectionTitle(section, index) ==
    IF "title" \in section.keys
    THEN [k |-> "given", n |-> section.title]
    ELSE [k |-> "default", n |-> index + 1]

\* The head of the loop body: section.get and the join of the content.
SectionText(section) ==
    IF section.shape # "dict" THEN Raise("AttributeError")
    ELSE IF "content" \in section.keys /\ section.content.shape = "list"
            /\ ~section.content.strs
    THEN Raise("TypeError")
    ELSE Return(section.title)

\* Variant: the reference of the section that follows.
TaggedNext(items, index, title) ==
    [k \in 1..Len(items) |->
        IF items[k].shape = "dict"
        THEN [items[k] EXCEPT !.section_index = index + 1, !.section_title = title]
        ELSE items[k]]

\* card["section_index"] = ..., card["section_title"] = ... for the dicts.
Tagged(items, index, title) ==
    [k \in 1..Len(items) |->
        IF items[k].shape = "dict"
        THEN [items[k] EXCEPT !.section_index = index, !.section_title = title]
        ELSE items[k]]

\* Variant: the cards of a section put in front of the earlier ones.
ExtendCardsFront(cards, section_cards, index, title) ==
    IF section_cards.shape = "list"
    THEN Tagged(section_cards.items, index, title) \o cards
    ELSE cards

\* all_cards.extend(section_cards), when section_cards is a list.
\* Variant: a value that is no list is appended as one card.
ExtendCardsOrAppend(cards, section_cards, index, title) ==
    IF section_cards.shape = "list"
    THEN cards \o Tagged(section_cards.items, index, title)
    ELSE Append(cards, section_cards)

ExtendCards(cards, section_cards, index, title) ==
    IF section_cards.shape = "list"
    THEN cards \o Tagged(section_cards.items, index, title)
    ELSE cards

\* Variant: only the mind maps that are objects are kept.
AppendMindmapIfDict(mindmaps, mindmap, index, title) ==
    IF mindmap.shape = "dict"
    THEN Append(mindmaps, Tagged(<<mindmap>>, index, title)[1])
    ELSE mindmaps

\* all_mindmaps.append(mindmap), tagged when it is a dict.
AppendMindmap(mindmaps, mindmap, index, title) ==
    Append(mindmaps, Tagged(<<mindmap>>, index, title)[1])

\* all_pyqs[part].extend(pyq[part]), part being "prelims" or "mains".
ExtendPyq(questions, pyq, part, index, title) ==
    IF pyq.shape = "dict" /\ part \in pyq.keys /\ pyq[part].shape = "list"
    THEN questions \o Tagged(pyq[part].items, index, title)
    ELSE questions

\* len(x)
PyLen(v) == IF v.shape = "list" THEN Return(Len(v.items)) ELSE Raise("TypeError")

\* len(corrected_pyq.get(part, []))
PyqLen(pyq, part) ==
    IF pyq.shape # "dict" THEN Raise("AttributeError")
    ELSE IF part \in pyq.keys THEN PyLen(pyq[part]) ELSE Return(0)

\* review_results[kind]["corrected_<kind>"]
CorrectedOf(rr, key) ==
    IF key \notin rr.keys THEN Raise("KeyError") ELSE Return(rr.corrected)

\* The dict the run returns on success.
Summary(d, secs, cards, mindmaps, pyq, overall_review) ==
    LET counts == FirstRaise(<<PyLen(secs), PyLen(cards), Return(Len(mindmaps)),
                              PyqLen(pyq, "prelims"), PyqLen(pyq, "mains")>>)
    IN  IF counts.t = "raise" THEN counts
        ELSE Return([t |-> "summary", date |-> d,
                     sections_count |-> counts.v[1],
                     cards_count |-> counts.v[2],
                     mindmaps_count |-> counts.v[3],
                     prelims_count |-> counts.v[4],
                     mains_count |-> counts.v[5],
                     review_summary |->
                        [total_issues |-> overall_review.total_issues,
                         total_corrections |-> overall_review.total_corrections,
                         average_accuracy |-> overall_review.average_accuracy]])

(***************************************************************************)
(* The state of one run of generate_and_save_content(date), of the store,  *)
(* and of one call of review_and_correct_content.                          *)
(***************************************************************************)
VARIABLES
    date,           \* the argument of the run
    attempt,        \* the loop variable of "for attempt in range(MAX_RETRIES)"
    pc,             \* where the run is
    article,        \* locals of generate_and_save_content ...
    sections,
    section_index,
    all_cards,
    all_mindmaps,
    all_pyqs,
    results,        \* the local "results" of review_all_content
    result,         \* what the run returned
    clock,          \* the time, advanced by time.sleep
    db,             \* the collection daily_content, by document id
    history,        \* history: one entry per attempt started, in order
    returned,       \* history: what the generators returned in this attempt
    writes,         \* history: the number of store writes that went through
    failure,        \* history: how the current attempt failed, if it did
    calls,          \* history: the calls of the current attempt, in order
    rc,             \* one call of a function of the program, taken alone
    files,          \* the directory data/, by date and site of the file name
    runs            \* runs of generate_and_save_content going on at once

vars ==
    <<date, attempt, pc, article, sections, section_index, all_cards,
      all_mindmaps, all_pyqs, results, result, clock, db, history, returned,
      writes, failure, calls, rc, files, runs>>

\* No file of data/ exists.
NoFile == [exists |-> FALSE, content |-> <<>>]
NoFiles == [d \in DateKeys, site \in {website_urls[i] : i \in 1..Len(website_urls)} |-> NoFile]

Running == [t |-> "running"]
NoFailure == [kind |-> "none", stage |-> ""]
Propagated == [t |-> "raised"]

NoResults == [sections |-> <<>>, cards |-> <<>>, pyq |-> <<>>, mindmaps |-> <<>>]

\* Nothing returned by a generator yet.
NoReturns == [create_cards |-> <<>>, create_mindmap |-> <<>>, create_pyq |-> <<>>]

NoCall == [content_type |-> "", content |-> JOther(FALSE), b |-> ClientRaises,
           ret |-> Return(JOther(FALSE))]

InitLocals ==
    /\ date = "13-10-2025"
    /\ attempt = 0
    /\ pc = "fetch"
    /\ article = <<>>
    /\ sections = JOther(FALSE)
    /\ section_index = 0
    /\ all_cards = <<>>
    /\ all_mindmaps = <<>>
    /\ all_pyqs = [prelims |-> <<>>, mains |-> <<>>]
    /\ results = NoResults
    /\ result = Running
    /\ clock = 0
    /\ db = [d \in DateKeys |-> Absent]
    /\ history = <<>>
    /\ returned = NoReturns
    /\ writes = 0
    /\ failure = NoFailure
    /\ calls = <<>>

InitRun == InitLocals /\ files = NoFiles /\ runs = <<>>

Init == InitRun /\ rc = NoCall

Call(fn, index, ret) == [fn |-> fn, index |-> index, outcome |-> ret.t]

\* How an attempt failed (what the run prints then) and in which step.
Failed(kind, stage) == [kind |-> kind, stage |-> stage]

\* Where the run goes when an attempt fails: to the delay before the next
\* attempt, to the return of None, or out of the function with the exception.
Leave(outcome) ==
    /\ pc' = IF outcome = "sleep" THEN "sleep" ELSE "done"
    /\ result' = CASE outcome = "sleep" -> result
                   [] outcome = "None" -> PyNone
                   [] OTHER -> Propagated

\* Step 1: article = scrape_all_articles(date=date)
Fetch(ok) ==
    /\ UNCHANGED <<files, runs>>
    /\ pc = "fetch"
    /\ LET r == scrape_all_articles(ok)
       IN  /\ calls' = <<Call("scrape_all_articles", -1, r)>>
           /\ history' = Append(history, [fetch |-> r.t, at |-> clock,
                                           generated |-> FALSE])
           /\ IF r.t = "ret"
              THEN /\ article' = r.v
                   /\ pc' = "extract"
                   /\ failure' = NoFailure
                   /\ UNCHANGED result
              ELSE /\ failure' = Failed("exception", "fetch")
                   /\ Leave(OnException(attempt, r.exc))
                   /\ UNCHANGED article
    /\ UNCHANGED <<date, attempt, sections, section_index, all_cards, all_mindmaps,
                   all_pyqs, results, clock, db, returned, writes, rc>>

\* Step 2: sections = extract_sections(article_text=article), the test
\* "if not sections", the new aggregates and the entry of the loop over the
\* sections.
Extract(b) ==
    /\ UNCHANGED <<files, runs>>
    /\ pc = "extract"
    /\ LET r == extract_sections(b)
       IN  /\ calls' = Append(calls, Call("extract_sections", -1, r))
           /\ IF r.t = "raise"
              THEN /\ failure' = Failed("exception", "extract")
                   /\ Leave(OnException(attempt, r.exc))
                   /\ UNCHANGED <<sections, section_index, all_cards, all_mindmaps,
                                  all_pyqs, returned>>
              ELSE /\ sections' = r.v
                   /\ IF ~Truthy(r.v)
                      THEN /\ failure' = Failed("empty", "extract")
                           /\ Leave(OnEmpty(attempt))
                           /\ UNCHANGED <<section_index, all_cards, all_mindmaps,
                                          all_pyqs, returned>>
                      ELSE /\ all_cards' = NewList(all_cards)
                           /\ returned' = NoReturns
                           /\ all_mindmaps' = NewList(all_mindmaps)
                           /\ all_pyqs' = [prelims |-> NewList(all_pyqs.prelims),
                                           mains |-> NewList(all_pyqs.mains)]
                           /\ IF r.v.shape = "list"
                              THEN /\ section_index' = 0
                                   /\ pc' = "cards"
                                   /\ UNCHANGED <<failure, result>>
                              ELSE \* enumerate() of a value that is no sequence
                                   /\ failure' = Failed("exception", "cards")
                                   /\ Leave(OnException(attempt, "TypeError"))
                                   /\ UNCHANGED section_index
    /\ UNCHANGED <<date, attempt, article, results, clock, db, history, writes, rc>>

Section == sections.items[section_index + 1]

\* The head of an iteration and section_cards = create_cards(...)
GenCards(b) ==
    /\ UNCHANGED <<files, runs>>
    /\ pc = "cards"
    /\ LET text == SectionText(Section)
           r == create_cards(b)
       IN  IF text.t = "raise"
           THEN /\ failure' = Failed("exception", "cards")
                /\ Leave(OnException(attempt, text.exc))
                /\ UNCHANGED <<all_cards, calls, returned>>
           ELSE /\ calls' = Append(calls, Call("create_cards", section_index, r))
                /\ IF r.t = "raise"
                   THEN /\ failure' = Failed("exception", "cards")
                        /\ Leave(OnException(attempt, r.exc))
                        /\ UNCHANGED <<all_cards, returned>>
                   ELSE /\ returned' = [returned EXCEPT !.create_cards = Append(@, r.v)]
                        /\ all_cards' = ExtendCards(all_cards, r.v, section_index,
                                                    SectionTitle(Section, section_index))
                        /\ pc' = "mindmap"
                        /\ UNCHANGED <<failure, result>>
    /\ UNCHANGED <<date, attempt, article, sections, section_index, all_mindmaps,
                   all_pyqs, results, clock, db, history, writes, rc>>

\* mindmap = create_mindmap(...)
GenMindmap(b) ==
    /\ UNCHANGED <<files, runs>>
    /\ pc = "mindmap"
    /\ LET r == create_mindmap(b)
       IN  /\ calls' = Append(calls, Call("create_mindmap", section_index, r))
           /\ IF r.t = "raise"
              THEN /\ failure' = Failed("exception", "mindmap")
                   /\ Leave(OnException(attempt, r.exc))
                   /\ UNCHANGED <<all_mindmaps, returned>>
              ELSE /\ returned' = [returned EXCEPT !.create_mindmap = Append(@, r.v)]
                   /\ all_mindmaps' = AppendMindmap(all_mindmaps, r.v, section_index,
                                                    SectionTitle(Section, section_index))
                   /\ pc' = "pyq"
                   /\ UNCHANGED <<failure, result>>
    /\ UNCHANGED <<date, attempt, article, sections, section_index, all_cards,
                   all_pyqs, results, clock, db, history, writes, rc>>

\* Variant: a loop left after its first iteration.
AfterFirstSection(index, n) == "review_sections"

\* The next iteration of "for section_index, section in enumerate(sections)",
\* or the call of review_all_content after the last one.
\* Variant: the loop leaves before the last of several sections.
AfterSectionButLast(index, n) == IF index + 2 < n THEN "cards" ELSE "review_sections"

\* Variant: the mind map and the questions of the same section once more.
AfterSectionAgain(index, n) == IF index + 1 < n THEN "mindmap" ELSE "review_sections"

AfterSection(index, n) == IF index + 1 < n THEN "cards" ELSE "review_sections"

\* pyq = create_pyq(...), and the end of the iteration
GenPyq(b) ==
    /\ UNCHANGED <<files, runs>>
    /\ pc = "pyq"
    /\ LET r == create_pyq(b)
           title == SectionTitle(Section, section_index)
           next == AfterSection(section_index, Len(sections.items))
       IN  /\ calls' = Append(calls, Call("create_pyq", section_index, r))
           /\ IF r.t = "raise"
              THEN /\ failure' = Failed("exception", "pyq")
                   /\ Leave(OnException(attempt, r.exc))
                   /\ UNCHANGED <<all_pyqs, section_index, results, returned, history>>
              ELSE /\ returned' = [returned EXCEPT !.create_pyq = Append(@, r.v)]
                   /\ history' = [history EXCEPT ![Len(history)].generated =
                                                     (next = "review_sections")]
                   /\ all_pyqs' =
                        [prelims |-> ExtendPyq(all_pyqs.prelims, r.v, "prelims",
                                               section_index, title),
                         mains |-> ExtendPyq(all_pyqs.mains, r.v, "mains",
                                             section_index, title)]
                   /\ pc' = next
                   /\ section_index' = IF next = "cards" THEN section_index + 1
                                       ELSE section_index
                   /\ results' = NoResults
                   /\ UNCHANGED <<failure, result>>
    /\ UNCHANGED <<date, attempt, article, sections, all_cards, all_mindmaps,
                   clock, db, writes, rc>>

\* What review_all_content and the run hand to the reviewers.
CardsContent == JList(all_cards)
PyqContent == PyqDict({"prelims", "mains"}, JList(all_pyqs.prelims), JList(all_pyqs.mains))

\* A review call that raised: the frame of review_all_content is gone.
ReviewRaised(exc) ==
    /\ failure' = Failed("exception", "review")
    /\ Leave(OnException(attempt, exc))
    /\ results' = NoResults

\* "sections": review_sections(sections, original_text)
ReviewSections(b) ==
    /\ UNCHANGED <<files, runs>>
    /\ pc = "review_sections"
    /\ LET r == review_sections(sections, b)
       IN  /\ calls' = Append(calls, Call("review_sections", -1, r))
           /\ IF r.t = "raise"
              THEN ReviewRaised(r.exc)
              ELSE /\ results' = [results EXCEPT !.sections = r.v]
                   /\ pc' = "review_cards"
                   /\ UNCHANGED <<failure, result>>
    /\ UNCHANGED <<date, attempt, article, sections, section_index, all_cards,
                   all_mindmaps, all_pyqs, clock, db, history, returned, writes, rc>>

\* "cards": review_cards(cards, original_text)
ReviewCards(b) ==
    /\ UNCHANGED <<files, runs>>
    /\ pc = "review_cards"
    /\ LET r == review_cards(CardsContent, b)
       IN  /\ calls' = Append(calls, Call("review_cards", -1, r))
           /\ IF r.t = "raise"
              THEN ReviewRaised(r.exc)
              ELSE /\ results' = [results EXCEPT !.cards = r.v]
                   /\ pc' = "review_pyq"
                   /\ UNCHANGED <<failure, result>>
    /\ UNCHANGED <<date, attempt, article, sections, section_index, all_cards,
                   all_mindmaps, all_pyqs, clock, db, history, returned, writes, rc>>

\* "pyq": review_pyq(pyq, original_text), then the loop over the mind maps
ReviewPyq(b) ==
    /\ UNCHANGED <<files, runs>>
    /\ pc = "review_pyq"
    /\ LET r == review_pyq(PyqContent, b)
       IN  /\ calls' = Append(calls, Call("review_pyq", -1, r))
           /\ IF r.t = "raise"
              THEN ReviewRaised(r.exc)
              ELSE /\ results' = [results EXCEPT !.pyq = r.v]
                   /\ pc' = IF all_mindmaps = <<>> THEN "finish" ELSE "review_mindmap"
                   /\ UNCHANGED <<failure, result>>
    /\ UNCHANGED <<date, attempt, article, sections, section_index, all_cards,
                   all_mindmaps, all_pyqs, clock, db, history, returned, writes, rc>>

\* Variant: the mind maps taken from the end of the list.
MindmapFromEnd(mindmaps, k) == mindmaps[Len(mindmaps) + 1 - k]

\* The mind map of the k-th turn of "for mindmap in mindmaps".
MindmapAt(mindmaps, k) == mindmaps[k]

\* for mindmap in mindmaps: results["mindmaps"].append(review_mindmap(...))
ReviewMindmap(b) ==
    /\ UNCHANGED <<files, runs>>
    /\ pc = "review_mindmap"
    /\ LET k == Len(results.mindmaps) + 1
           r == review_mindmap(MindmapAt(all_mindmaps, k), b)
       IN  /\ calls' = Append(calls, Call("review_mindmap", k - 1, r))
           /\ IF r.t = "raise"
              THEN ReviewRaised(r.exc)
              ELSE /\ results' = [results EXCEPT !.mindmaps = Append(@, r.v)]
                   /\ pc' = IF k = Len(all_mindmaps) THEN "finish" ELSE "review_mindmap"
                   /\ UNCHANGED <<failure, result>>
    /\ UNCHANGED <<date, attempt, article, sections, section_index, all_cards,
                   all_mindmaps, all_pyqs, clock, db, history, returned, writes, rc>>

\* The corrected content of lines 99-102, in the order it is read.
Unpacked(res) ==
    LET mindmaps == FirstRaise([i \in 1..Len(res.mindmaps) |->
                                   CorrectedOf(res.mindmaps[i], "corrected_mindmap")])
    IN  FirstRaise(<<CorrectedOf(res.sections, "corrected_sections"),
                     CorrectedOf(res.cards, "corrected_cards"),
                     mindmaps,
                     CorrectedOf(res.pyq, "corrected_pyq")>>)

\* The end of review_all_content (the overall metrics), then the run's
\* steps 4 and 5: the corrected content, the store write and the summary.
Finish(store_ok) ==
    /\ UNCHANGED <<files, runs>>
    /\ pc = "finish"
    /\ results' = NoResults
    /\ LET overall == OverallReview(results)
           corrected == Unpacked(results)
       IN  IF overall.t = "raise"
           THEN /\ failure' = Failed("exception", "review")
                /\ Leave(OnException(attempt, overall.exc))
                /\ UNCHANGED <<db, writes, calls>>
           ELSE IF corrected.t = "raise"
           THEN /\ failure' = Failed("exception", "unpack")
                /\ Leave(OnException(attempt, corrected.exc))
                /\ UNCHANGED <<db, writes, calls>>
           ELSE LET corrected_sections == corrected.v[1]
                    corrected_cards == corrected.v[2]
                    corrected_mindmaps == corrected.v[3]
                    corrected_pyq == corrected.v[4]
                    saved == save_daily_content(db, date, corrected_sections,
                                 corrected_cards, [mindmaps |-> corrected_mindmaps],
                                 corrected_pyq, overall.v, clock, store_ok)
                    summary == Summary(date, corrected_sections, corrected_cards,
                                       corrected_mindmaps, corrected_pyq, overall.v)
                IN  /\ db' = saved.db
                    /\ writes' = IF saved.success THEN writes + 1 ELSE writes
                    /\ calls' = Append(calls, Call("save_daily_content", -1,
                                                   Return(saved.success)))
                    /\ IF ~saved.success
                       THEN /\ failure' = Failed("save_false", "save")
                            /\ Leave(OnSaveFailed(attempt))
                       ELSE IF summary.t = "raise"
                       THEN /\ failure' = Failed("exception", "summary")
                            /\ Leave(OnException(attempt, summary.exc))
                       ELSE /\ failure' = Failed("ok", "done")
                            /\ pc' = "done"
                            /\ result' = summary.v
    /\ UNCHANGED <<date, attempt, article, sections, section_index, all_cards,
                   all_mindmaps, all_pyqs, clock, history, returned, rc>>

\* time.sleep(RETRY_DELAY); continue
Sleep ==
    /\ UNCHANGED <<files, runs>>
    /\ pc = "sleep"
    /\ clock' = clock + RETRY_DELAY
    /\ attempt' = attempt + 1
    /\ pc' = "fetch"
    /\ failure' = NoFailure
    /\ UNCHANGED <<date, article, sections, section_index, all_cards, all_mindmaps,
                   all_pyqs, results, result, db, history, returned, writes, calls, rc>>

(***************************************************************************)
(* The environment: what the sites, the generation client and the store    *)
(* may do.                                                                 *)
(***************************************************************************)
Sites == {website_urls[i] : i \in 1..Len(website_urls)}
\* Every site fails, or every site works.
AllOrNone == {[site \in Sites |-> ok] : ok \in BOOLEAN}

\* Response texts: none, prose, an opening fence that is never closed, an
\* empty block, a block that is no JSON, a block with a document, the same
\* inside prose and blanks, and a broken block before a good one.
SampleTexts ==
    {<<>>, <<TXT>>, <<FENCE, TAG, DOC>>, <<FENCE, TAG, FENCE>>,
     <<FENCE, TAG, TXT, FENCE>>, <<FENCE, TAG, DOC, FENCE>>,
     <<TXT, FENCE, TAG, WS, DOC, WS, FENCE, TXT>>,
     <<FENCE, TAG, TXT, FENCE, FENCE, TAG, DOC, FENCE>>}

AllKeys == {"title", "content", "importance"}

SectionDocs(att) ==
    {JList(<<>>), JOther(TRUE)}
        \cup {JList([i \in 1..n |-> Sec(i, AllKeys, att)]) : n \in 1..MaxSections}

CardDocs(att) == {JList(<<Item(1, att)>>)}

MindmapDocs(att) == {Item(1, att)}

PyqDocs(att) ==
    {PyqDict({"prelims", "mains"}, JList(<<Item(1, att)>>), JList(<<Item(1, att)>>))}

\* A reviewer's rewrite of a list, of a question set, of a mind map.
RevisedList(v) == JList([i \in 1..Len(v.items) |-> [v.items[i] EXCEPT !.rev = TRUE]])
RevisedPyq(v) == PyqDict(v.keys, RevisedList(v.prelims), RevisedList(v.mains))
RevisedItem(v) == [v EXCEPT !.rev = TRUE]

GoodNotes(second_key) ==
    Notes({"issues_found", "corrections_made", "accuracy_score", second_key},
          <<"issue">>, <<"correction">>, 90, 80)

\* The JSON documents a review response may hold: the expected object, and an
\* object without its corrected content.
ReviewDocs(corrected_key, second_key, revised, null) ==
    {ReviewDict({corrected_key, "review_notes"}, revised, GoodNotes(second_key)),
     ReviewDict({"review_notes"}, null, GoodNotes(second_key))}

\* The mind map the next review_mindmap call is about.
NextMindmap == all_mindmaps[Len(results.mindmaps) + 1]

\* The "typed" environment: every site works and every response is one
\* well-formed block.
AllWork == {[site \in Sites |-> TRUE]}

GoodTexts == {<<FENCE, TAG, DOC, FENCE>>}

SomeSections(att) ==
    {JList([i \in 1..n |-> Sec(i, AllKeys, att)]) : n \in 1..MaxSections}

\* The expected object, and one whose corrected content is null (sections,
\* cards) or no object (mind map, questions).
TypedReviewDocs(corrected_key, second_key, revised, null) ==
    {ReviewDict({corrected_key, "review_notes"}, revised, GoodNotes(second_key)),
     ReviewDict({corrected_key, "review_notes"}, null, GoodNotes(second_key))}

\* A reviewer's rewrite of a list that drops its first item.
Shorter(v) ==
    IF v.shape = "list" /\ v.items # <<>> THEN JList(Tail(v.items)) ELSE v

\* The "short" environment: the expected object, and one whose corrected
\* list is shorter than the list sent.
ShortReviewDocs(corrected_key, second_key, revised, null) ==
    {ReviewDict({corrected_key, "review_notes"}, revised, GoodNotes(second_key)),
     ReviewDict({corrected_key, "review_notes"}, Shorter(revised), GoodNotes(second_key))}

\* The question sets of the "quiz" environment: one prelims question whose
\* answer is one of its options or is not, and one mains question.
QuizDocs(att) ==
    {PyqDict({"prelims", "mains"}, JList(<<Question(1, att, options, answer)>>),
             JList(<<Item(1, att)>>)) :
        options \in {{"a", "b", "c", "d"}, {"a", "b"}}, answer \in {"a", "c"}}

\* The environments of the run: "any" is every behaviour above; "typed",
\* "short" and "quiz" are clients that answer well-formed blocks.
WellFormed == {"typed", "short", "quiz"}
EnvSites(env) == IF env \in WellFormed THEN AllWork ELSE AllOrNone
EnvTexts(env) == IF env \in WellFormed THEN GoodTexts ELSE SampleTexts
EnvSectionDocs(env, att) == IF env \in WellFormed THEN SomeSections(att) ELSE SectionDocs(att)
EnvReviewDocs(env, corrected_key, second_key, revised, null) ==
    CASE env = "typed" -> TypedReviewDocs(corrected_key, second_key, revised, null)
      [] env = "short" -> ShortReviewDocs(corrected_key, second_key, revised, null)
      [] OTHER -> ReviewDocs(corrected_key, second_key, revised, null)

EnvPyqDocs(env, att) == IF env = "quiz" THEN QuizDocs(att) ELSE PyqDocs(att)

\* One step of the run in environment env.
Pipeline(env) ==
    \/ \E ok \in EnvSites(env) : Fetch(ok)
    \/ \E b \in Behaviours(EnvTexts(env), EnvSectionDocs(env, attempt)) : Extract(b)
    \/ \E b \in Behaviours(EnvTexts(env), CardDocs(attempt)) : GenCards(b)
    \/ \E b \in Behaviours(EnvTexts(env), MindmapDocs(attempt)) : GenMindmap(b)
    \/ \E b \in Behaviours(EnvTexts(env), EnvPyqDocs(env, attempt)) : GenPyq(b)
    \/ \E b \in Behaviours(EnvTexts(env),
                           EnvReviewDocs(env, "corrected_sections", "completeness_score",
                                         RevisedList(sections), JOther(FALSE))) :
            ReviewSections(b)
    \/ \E b \in Behaviours(EnvTexts(env),
                           EnvReviewDocs(env, "corrected_cards", "quality_score",
                                         RevisedList(CardsContent), JOther(FALSE))) :
            ReviewCards(b)
    \/ \E b \in Behaviours(EnvTexts(env),
                           EnvReviewDocs(env, "corrected_pyq", "quality_score",
                                         RevisedPyq(PyqContent), PyqOther)) :
            ReviewPyq(b)
    \/ /\ pc = "review_mindmap"
       /\ \E b \in Behaviours(EnvTexts(env),
                              EnvReviewDocs(env, "corrected_mindmap", "structure_score",
                                            RevisedItem(NextMindmap),
                                            NotADict(attempt))) :
               ReviewMindmap(b)
    \/ \E store_ok \in BOOLEAN : Finish(store_ok)
    \/ Sleep

Next == Pipeline("any")

Spec == Init /\ [][Next]_vars

\* The end of the attempt is reached and left: the store answers the write,
\* and the run returns or goes to sleep.
FinishEnds == pc = "finish" /\ pc' \in {"done", "sleep"}

\* The run when every call it makes returns or raises, and time.sleep
\* returns: a step that can be taken is taken.
SpecLive ==
    Init /\ [][Next]_vars /\ WF_vars(pc # "finish" /\ Next) /\ WF_pc(FinishEnds)

(***************************************************************************)
(* The run with a client that answers well-formed blocks whose corrected   *)
(* content may have another type than the content sent.                    *)
(***************************************************************************)
NextTyped == Pipeline("typed")

SpecTyped == Init /\ [][NextTyped]_vars

(***************************************************************************)
(* The run with reviewers that answer well-formed objects whose corrected  *)
(* lists may be shorter than the lists sent.                               *)
(***************************************************************************)
NextShort == Pipeline("short")

SpecShort == Init /\ [][NextShort]_vars

(***************************************************************************)
(* The run with a create_pyq whose prelims questions name an answer that   *)
(* may be none of their options.                                           *)
(***************************************************************************)
NextQuiz == Pipeline("quiz")

SpecQuiz == Init /\ [][NextQuiz]_vars

(***************************************************************************)
(* The loop over the sections alone, entered after an extraction that      *)
(* returned sections, with generators that return lists of any length,     *)
(* repeated items, and values of other types.                              *)
(***************************************************************************)
TitleKeys == {AllKeys, {"content"}}

AggSections ==
    {JList([i \in 1..n |-> Sec(i, keys, 0)]) : n \in 1..MaxSections, keys \in TitleKeys}

AggCardDocs(att) ==
    {JList(<<>>), JList(<<Item(2, att), Item(1, att)>>),
     JList(<<Item(1, att), Item(1, att)>>), JList(<<NotADict(att), Item(3, att)>>),
     JOther(TRUE)}

AggMindmapDocs(att) == {Item(1, att), NotADict(att)}

AggPyqDocs(att) ==
    {PyqDict({"prelims", "mains"}, JList(<<Item(2, att), Item(1, att)>>),
             JList(<<Item(1, att)>>)),
     PyqDict({"prelims"}, JList(<<Item(1, att), Item(1, att)>>), JList(<<>>)),
     PyqDict({"prelims", "mains"}, JOther(TRUE), JList(<<Item(3, att), Item(3, att)>>)),
     PyqOther}

\* The state after steps 1 and 2 of the first attempt.
InitAgg ==
    /\ date = "13-10-2025"
    /\ attempt = 0
    /\ pc = "cards"
    /\ article = scrape_all_articles([site \in Sites |-> TRUE]).v
    /\ sections \in AggSections
    /\ section_index = 0
    /\ all_cards = <<>>
    /\ all_mindmaps = <<>>
    /\ all_pyqs = [prelims |-> <<>>, mains |-> <<>>]
    /\ results = NoResults
    /\ result = Running
    /\ clock = 0
    /\ db = [d \in DateKeys |-> Absent]
    /\ history = <<[fetch |-> "ret", at |-> 0, generated |-> FALSE]>>
    /\ returned = NoReturns
    /\ writes = 0
    /\ failure = NoFailure
    /\ calls = <<Call("scrape_all_articles", -1, Return(TRUE)),
                 Call("extract_sections", -1, Return(TRUE))>>
    /\ rc = NoCall
    /\ files = NoFiles
    /\ runs = <<>>

NextAgg ==
    \/ \E b \in Behaviours(GoodTexts, AggCardDocs(attempt)) : GenCards(b)
    \/ \E b \in Behaviours(GoodTexts, AggMindmapDocs(attempt)) : GenMindmap(b)
    \/ \E b \in Behaviours(GoodTexts, AggPyqDocs(attempt)) : GenPyq(b)

SpecAgg == InitAgg /\ [][NextAgg]_vars

(***************************************************************************)
(* The end of review_all_content and of the attempt alone, entered after   *)
(* review calls that returned notes of every kind.                         *)
(***************************************************************************)
\* Notes with two issues and a correction, with none, without any key, with
\* some keys, and the notes of the fallback.
NoteDocs(second_key) ==
    {Notes({"issues_found", "corrections_made", "accuracy_score", second_key},
           <<"issue", "issue">>, <<"correction">>, 100, 90),
     Notes({"issues_found", "corrections_made", "accuracy_score", second_key},
           <<>>, <<>>, 0, 0),
     Notes({}, <<"issue">>, <<"correction">>, 50, 50),
     Notes({"issues_found", "accuracy_score"},
           <<"issue">>, <<"correction", "correction">>, 80, 0),
     ReviewNotes(FAILED_TO_PARSE, second_key)}

\* The review results a reviewer may have returned for content: with notes,
\* with notes that are no object, and without notes.
Reviewed(corrected_key, second_key, content) ==
    {ReviewDict({corrected_key, "review_notes"}, content, notes) :
        notes \in NoteDocs(second_key)}
    \cup {ReviewDict({corrected_key, "review_notes"}, content,
                     [ReviewNotes(INVALID_JSON, second_key) EXCEPT !.shape = "other"]),
          ReviewDict({corrected_key}, content, ReviewNotes(INVALID_JSON, second_key))}

MindmapReviewed(mindmap) ==
    {ReviewDict({"corrected_mindmap", "review_notes"}, mindmap, notes) :
        notes \in {Notes({"issues_found", "corrections_made", "accuracy_score",
                          "structure_score"},
                         <<"issue", "issue">>, <<"correction">>, 100, 90),
                   Notes({"issues_found", "accuracy_score"},
                         <<"issue">>, <<"correction", "correction">>, 80, 0)}}
    \cup {ReviewDict({"corrected_mindmap"}, mindmap,
                     ReviewNotes(INVALID_JSON, "structure_score"))}

\* The calls of an attempt over n sections up to the last review call.
CallsBeforeFinish(n) ==
    <<Call("scrape_all_articles", -1, Return(TRUE)),
      Call("extract_sections", -1, Return(TRUE))>>
    \o [k \in 1..(3 * n) |->
            Call(<<"create_cards", "create_mindmap", "create_pyq">>[((k - 1) % 3) + 1],
                 (k - 1) \div 3, Return(TRUE))]
    \o <<Call("review_sections", -1, Return(TRUE)),
         Call("review_cards", -1, Return(TRUE)),
         Call("review_pyq", -1, Return(TRUE))>>
    \o [i \in 1..n |-> Call("review_mindmap", i - 1, Return(TRUE))]

\* The state after the last review call of the first attempt over n sections
\* whose generators returned one mind map each and no card or question.
InitMetrics ==
    \E n \in 1..MaxSections :
        /\ date = "13-10-2025"
        /\ attempt = 0
        /\ pc = "finish"
        /\ article = scrape_all_articles([site \in Sites |-> TRUE]).v
        /\ sections = JList([i \in 1..n |-> Sec(i, AllKeys, 0)])
        /\ section_index = n - 1
        /\ all_cards = <<>>
        /\ all_mindmaps = [i \in 1..n |->
                              Tagged(<<Item(1, 0)>>, i - 1, SectionTitle(sections.items[i], i - 1))[1]]
        /\ all_pyqs = [prelims |-> <<>>, mains |-> <<>>]
        /\ \E rs \in Reviewed("corrected_sections", "completeness_score", sections),
              rcards \in Reviewed("corrected_cards", "quality_score", CardsContent),
              rp \in Reviewed("corrected_pyq", "quality_score", PyqContent),
              rm \in [1..n -> UNION {MindmapReviewed(all_mindmaps[i]) : i \in 1..n}] :
                /\ \A i \in 1..n : rm[i] \in MindmapReviewed(all_mindmaps[i])
                /\ results = [sections |-> rs, cards |-> rcards, pyq |-> rp, mindmaps |-> rm]
        /\ result = Running
        /\ clock = 0
        /\ db = [d \in DateKeys |-> Absent]
        /\ history = <<[fetch |-> "ret", at |-> 0, generated |-> TRUE]>>
        /\ returned = [create_cards |-> [i \in 1..n |-> JList(<<>>)],
                       create_mindmap |-> [i \in 1..n |-> Item(1, 0)],
                       create_pyq |-> [i \in 1..n |->
                            PyqDict({"prelims", "mains"}, JList(<<>>), JList(<<>>))]]
        /\ writes = 0
        /\ failure = NoFailure
        /\ calls = CallsBeforeFinish(n)
        /\ rc = NoCall
        /\ files = NoFiles
        /\ runs = <<>>

NextMetrics == \E store_ok \in BOOLEAN : Finish(store_ok)

SpecMetrics == InitMetrics /\ [][NextMetrics]_vars

(***************************************************************************)
(* One call of review_and_correct_content, for every response text of up   *)
(* to MaxTextLen tokens.                                                   *)
(***************************************************************************)
AllTexts == UNION {[1..n -> Tokens] : n \in 0..MaxTextLen}

ContentTypes == {"sections", "cards", "mindmap", "pyq"}

\* The content a reviewer is given.
Contents(content_type) ==
    CASE content_type = "sections" ->
            {JList(<<>>), JList(<<Sec(1, AllKeys, 0), Sec(2, AllKeys, 0)>>)}
      [] content_type = "cards" -> {JList(<<>>), JList(<<Item(1, 0), Item(2, 0)>>)}
      [] content_type = "mindmap" -> {Item(1, 0)}
      [] content_type = "pyq" ->
            {PyqDict({"prelims", "mains"}, JList(<<Item(1, 0)>>), JList(<<>>))}
      [] OTHER -> {JOther(TRUE)}

\* The documents the response may hold: the expected object and an empty one.
CallDocs(content_type, content) ==
    {ReviewDict({"corrected_" \o content_type, "review_notes"}, content,
                GoodNotes("quality_score")),
     ReviewDict({}, content, GoodNotes("quality_score"))}

Pending == [t |-> "pending"]

InitReviewers ==
    /\ InitRun
    /\ \E content_type \in ContentTypes \cup {"summary"} :
        \E content \in Contents(content_type) :
            \E b \in Behaviours(AllTexts, CallDocs(content_type, content)) :
                rc = [content_type |-> content_type, content |-> content, b |-> b,
                      ret |-> Pending]

\* review_and_correct_content(content_type, content, original_text)
Dispatch ==
    /\ UNCHANGED <<files, runs>>
    /\ rc.ret = Pending
    /\ rc' = [rc EXCEPT !.ret = review_and_correct_content(rc.content_type,
                                                           rc.content, rc.b)]
    /\ UNCHANGED <<date, attempt, pc, article, sections, section_index, all_cards,
                   all_mindmaps, all_pyqs, results, result, clock, db, history,
                   returned, writes, failure, calls>>

NextReviewers == Dispatch

SpecReviewers == InitReviewers /\ [][NextReviewers]_vars

(***************************************************************************)
(* One call of extract_json_block, of extract_sections, of a generator or  *)
(* of a reviewer, for every response text of up to MaxTextLen tokens.      *)
(***************************************************************************)
ParsingGenerators == {"create_cards", "create_mindmap", "create_pyq"}

\* The section lists a response to extract_sections may hold: none, fewer
\* than the prompt asks for, as many, and more.
SectionLists ==
    {JList([i \in 1..n |-> Sec(i, AllKeys, 0)]) :
        n \in {0, MIN_SECTIONS - 1, MIN_SECTIONS, MAX_SECTIONS, MAX_SECTIONS + 1}}

\* What the response of a call may hold as its JSON document.
ParsingDocs(fn, content) ==
    CASE fn = "extract_json_block" -> {JOther(FALSE)}
      [] fn = "extract_sections" -> SectionLists
      [] fn \in {"create_cards", "create_pyq"} -> {JList(<<Item(1, 0)>>)}
      [] fn = "create_mindmap" -> {Item(1, 0)}
      [] OTHER -> CallDocs(fn, content)

\* What a call is given beside the response: the content to review, for a
\* reviewer.
ParsingContents(fn) ==
    IF fn \in ContentTypes THEN Contents(fn) ELSE {JOther(FALSE)}

InitParsing ==
    /\ InitRun
    /\ \E fn \in {"extract_json_block", "extract_sections"} \cup ParsingGenerators
                       \cup ContentTypes :
        \E content \in ParsingContents(fn) :
            \E b \in Behaviours(AllTexts, ParsingDocs(fn, content)) :
                /\ fn = "extract_json_block" => b.t = "resp"
                /\ rc = [content_type |-> fn, content |-> content, b |-> b,
                         ret |-> Pending]

\* The frame of a call in rc returns or raises.
Returns(ret) ==
    /\ UNCHANGED <<files, runs>>
    /\ rc.ret = Pending
    /\ rc' = [rc EXCEPT !.ret = ret]
    /\ UNCHANGED <<date, attempt, pc, article, sections, section_index, all_cards,
                   all_mindmaps, all_pyqs, results, result, clock, db, history,
                   returned, writes, failure, calls>>

\* extract_json_block(raw_text)
ExtractJsonBlock ==
    /\ rc.content_type = "extract_json_block"
    /\ Returns(extract_json_block(rc.b.text))

\* extract_sections(text)
ExtractSections ==
    /\ rc.content_type = "extract_sections"
    /\ Returns(extract_sections(rc.b))

\* create_cards(section_text)
CreateCards ==
    /\ rc.content_type = "create_cards"
    /\ Returns(create_cards(rc.b))

\* create_mindmap(section_text)
CreateMindmap ==
    /\ rc.content_type = "create_mindmap"
    /\ Returns(create_mindmap(rc.b))

\* create_pyq(section_text)
CreatePyq ==
    /\ rc.content_type = "create_pyq"
    /\ Returns(create_pyq(rc.b))

\* A reviewer, called through review_and_correct_content.
ReviewCall ==
    /\ rc.content_type \in ContentTypes
    /\ Dispatch

NextParsing ==
    \/ ExtractJsonBlock
    \/ ExtractSections
    \/ CreateCards
    \/ CreateMindmap
    \/ CreatePyq
    \/ ReviewCall

SpecParsing == InitParsing /\ [][NextParsing]_vars


(***************************************************************************)
(* Properties of the run                                                   *)
(***************************************************************************)
(***************************************************************************)
(* Runs of generate_and_save_content going on at once, each with its own   *)
(* locals, over the one directory data/ and the one store. The fetch is    *)
(* taken step by step (scrape_article and the loop of scrape_all_articles),*)
(* steps 2 to 5 of an attempt, which touch the locals alone, as one step.  *)
(***************************************************************************)
\* What requests.get returned to run r for a site: the page as that request
\* saw it. Run 0 is a run that ended before.
Page(site, r) == [site |-> site, by |-> r]
NoPage == [site |-> "", by |-> -1]

\* The content an attempt of run r made of its article.
NoContent ==
    [sections |-> JOther(FALSE), cards |-> JOther(FALSE), mindmaps |-> <<>>,
     pyq |-> PyqOther, overall_review |-> <<>>]

Produced(article_text, r, att) ==
    [sections |-> JList(<<[Sec(1, AllKeys, att) EXCEPT !.title = article_text]>>),
     cards |-> JList(<<Item(r, att)>>),
     mindmaps |-> <<Item(r, att)>>,
     pyq |-> PyqDict({"prelims", "mains"}, JList(<<Item(r, att)>>), JList(<<>>)),
     overall_review |-> [total_issues |-> 0, total_corrections |-> 0,
                         average_accuracy |-> [num |-> 360, den |-> 4]]]

\* scraped: history, how the scrape of each site went in this attempt.
\* stored: history, whether the store call of the run went through.
\* wrote: history, the rank of the run's write among the writes.
NewRun(d) ==
    [date |-> d, attempt |-> 0, pc |-> "get", site |-> 1, resp |-> NoPage,
     articles |-> <<>>, article |-> <<>>, content |-> NoContent,
     result |-> Running, scraped |-> <<>>, stored |-> FALSE, wrote |-> 0]

\* continue, or the end of "for website, url in website_urls.items()".
Continue(run, how) ==
    [run EXCEPT !.scraped = Append(@, how),
                !.resp = NoPage,
                !.site = IF run.site < Len(website_urls) THEN run.site + 1 ELSE run.site,
                !.pc = IF run.site < Len(website_urls) THEN "get" ELSE "join"]

\* Where a run goes when an attempt fails.
LeaveRun(run, outcome) ==
    [run EXCEPT !.pc = IF outcome = "sleep" THEN "sleep" ELSE "done",
                !.result = CASE outcome = "sleep" -> run.result
                             [] outcome = "None" -> PyNone
                             [] OTHER -> Propagated]

\* Variant: the newest text put first.
CollectedFirst(articles, content) == <<content>> \o articles

\* articles.append(content)
Collected(articles, content) == Append(articles, content)

Locals ==
    <<date, attempt, pc, article, sections, section_index, all_cards, all_mindmaps,
      all_pyqs, results, result, history, returned, failure, calls>>

\* scrape_article: resp = requests.get(url, timeout=10); resp.raise_for_status()
\* and the parsing of the page.
RequestsGet(r, ok) ==
    /\ r \in DOMAIN runs
    /\ runs[r].pc = "get"
    /\ runs' = [runs EXCEPT ![r] =
                    IF ok
                    THEN [@ EXCEPT !.resp = Page(website_urls[runs[r].site], r),
                                   !.pc = "write"]
                    ELSE Continue(@, "failed")]
    /\ UNCHANGED <<Locals, rc, clock, db, writes, files>>

\* scrape_article: the page written to data/{date}_{website}.txt, and None
\* returned when that fails.
WriteFile(r, ok) ==
    /\ r \in DOMAIN runs
    /\ runs[r].pc = "write"
    /\ LET run == runs[r]
           website == website_urls[run.site]
       IN  IF ok
           THEN /\ files' = [files EXCEPT ![run.date, website] =
                                [exists |-> TRUE, content |-> run.resp]]
                /\ runs' = [runs EXCEPT ![r].pc = "read"]
           ELSE /\ runs' = [runs EXCEPT ![r] = Continue(@, "failed")]
                /\ UNCHANGED files
    /\ UNCHANGED <<Locals, rc, clock, db, writes>>

\* scrape_all_articles: the file is looked for and read.
ReadFile(r, ok) ==
    /\ r \in DOMAIN runs
    /\ runs[r].pc = "read"
    /\ LET run == runs[r]
           file == files[run.date, website_urls[run.site]]
       IN  runs' = [runs EXCEPT ![r] =
                IF file.exists /\ ok
                THEN Continue([@ EXCEPT !.articles = Collected(@, file.content)], "ok")
                ELSE Continue(@, "failed")]
    /\ UNCHANGED <<Locals, rc, clock, db, writes, files>>

\* scrape_all_articles: if not articles: raise; final_content = join(articles)
JoinArticles(r) ==
    /\ r \in DOMAIN runs
    /\ runs[r].pc = "join"
    /\ runs' = [runs EXCEPT ![r] =
                    IF @.articles = <<>>
                    THEN LeaveRun(@, OnException(@.attempt, "Exception"))
                    ELSE [@ EXCEPT !.article = runs[r].articles, !.pc = "produce"]]
    /\ UNCHANGED <<Locals, rc, clock, db, writes, files>>

\* Steps 2 to 5 of the attempt: they end with the corrected content or with
\* an exception.
Produce(r, ok) ==
    /\ r \in DOMAIN runs
    /\ runs[r].pc = "produce"
    /\ runs' = [runs EXCEPT ![r] =
                    IF ok
                    THEN [@ EXCEPT !.content = Produced(runs[r].article, r,
                                                       runs[r].attempt),
                                   !.pc = "save"]
                    ELSE LeaveRun(@, OnException(@.attempt, "Exception"))]
    /\ UNCHANGED <<Locals, rc, clock, db, writes, files>>

\* Step 6 and the return of the summary.
SaveRecord(r, store_ok) ==
    /\ r \in DOMAIN runs
    /\ runs[r].pc = "save"
    /\ LET run == runs[r]
           c == run.content
           saved == save_daily_content(db, run.date, c.sections, c.cards,
                                       [mindmaps |-> c.mindmaps], c.pyq,
                                       c.overall_review, clock, store_ok)
           summary == Summary(run.date, c.sections, c.cards, c.mindmaps, c.pyq,
                              c.overall_review)
       IN  /\ db' = saved.db
           /\ writes' = IF saved.success THEN writes + 1 ELSE writes
           /\ runs' = [runs EXCEPT ![r] =
                        IF saved.success
                        THEN [@ EXCEPT !.pc = "done", !.result = summary.v,
                                       !.stored = store_ok, !.wrote = writes + 1]
                        ELSE [LeaveRun(@, OnSaveFailed(@.attempt))
                                EXCEPT !.stored = store_ok]]
    /\ UNCHANGED <<Locals, rc, clock, files>>

\* time.sleep(RETRY_DELAY); continue
SleepRun(r) ==
    /\ r \in DOMAIN runs
    /\ runs[r].pc = "sleep"
    /\ runs' = [runs EXCEPT ![r] =
                    [NewRun(@.date) EXCEPT !.attempt = runs[r].attempt + 1]]
    /\ UNCHANGED <<Locals, rc, clock, db, writes, files>>

RunIds == {1, 2}

\* The dates the runs are started for.
RunDates == {"13-10-2025", "14-10-2025"}

NextRuns ==
    \E r \in RunIds :
        \/ \E ok \in BOOLEAN : RequestsGet(r, ok)
        \/ \E ok \in BOOLEAN : WriteFile(r, ok)
        \/ \E ok \in BOOLEAN : ReadFile(r, ok)
        \/ JoinArticles(r)
        \/ \E ok \in BOOLEAN : Produce(r, ok)
        \/ \E store_ok \in BOOLEAN : SaveRecord(r, store_ok)
        \/ SleepRun(r)

\* The files an earlier run for every date left in data/.
OldFiles == [d \in DateKeys, site \in Sites |-> [exists |-> TRUE, content |-> Page(site, 0)]]

\* One run alone, in an empty directory or over the files of an earlier run.
InitScrape ==
    /\ InitLocals
    /\ rc = NoCall
    /\ files \in {NoFiles, OldFiles}
    /\ \E d \in RunDates : runs = <<NewRun(d)>>

SpecScrape == InitScrape /\ [][NextRuns]_vars

\* Two runs started for the same date or for two dates.
InitRuns ==
    /\ InitLocals
    /\ rc = NoCall
    /\ files = NoFiles
    /\ \E d1, d2 \in RunDates : runs = <<NewRun(d1), NewRun(d2)>>

SpecRuns == InitRuns /\ [][NextRuns]_vars

(***************************************************************************)
(* Two runs for one date whose reviewed questions may have one part only.  *)
(***************************************************************************)
PyqParts == {"prelims", "mains"}

\* The corrected content of an attempt whose corrected_pyq has the key part
\* alone.
ProducedPart(article_text, r, att, part) ==
    [Produced(article_text, r, att) EXCEPT
        !.pyq = PyqDict({part},
                        IF part = "prelims" THEN JList(<<Item(r, att)>>) ELSE JList(<<>>),
                        IF part = "mains" THEN JList(<<Item(r, att)>>) ELSE JList(<<>>))]

\* Steps 2 to 5 of an attempt whose review_pyq returned one part.
ProducePart(r, part) ==
    /\ r \in DOMAIN runs
    /\ runs[r].pc = "produce"
    /\ runs' = [runs EXCEPT ![r] =
                    [@ EXCEPT !.content = ProducedPart(runs[r].article, r,
                                                       runs[r].attempt, part),
                              !.pc = "save"]]
    /\ UNCHANGED <<Locals, rc, clock, db, writes, files>>

NextMixed ==
    \/ NextRuns
    \/ \E r \in RunIds, part \in PyqParts : ProducePart(r, part)

InitMixed ==
    /\ InitLocals
    /\ rc = NoCall
    /\ files = NoFiles
    /\ \E d \in RunDates : runs = <<NewRun(d), NewRun(d)>>

SpecMixed == InitMixed /\ [][NextMixed]_vars

(***************************************************************************)
(* api/content.py: the handler of POST /generate/{date}, step by step. Its *)
(* locals have the names of the locals of the run and are kept in the same *)
(* variables; result is the response.                                      *)
(***************************************************************************)
\* return {...}, or raise HTTPException(status_code=...)
Http(status) == [t |-> "http", status |-> status]

Respond(status) ==
    /\ pc' = "done"
    /\ result' = Http(status)

Untouched == <<date, attempt, results, clock, db, history, returned, writes, failure, rc, files, runs>>

\* article = scrape_all_articles(date=date)
ApiScrape(ok) ==
    /\ pc = "fetch"
    /\ LET r == scrape_all_articles(ok)
       IN  /\ calls' = Append(calls, Call("scrape_all_articles", -1, r))
           /\ IF r.t = "ret"
              THEN /\ article' = r.v
                   /\ pc' = "extract"
                   /\ UNCHANGED result
              ELSE /\ Respond(500)
                   /\ UNCHANGED article
    /\ UNCHANGED <<Untouched, sections, section_index, all_cards, all_mindmaps, all_pyqs>>

\* sections = extract_sections(article_text=article), "if not sections" and
\* the entry of "for section in sections"; a value that is no list of
\* objects raises there.
ApiExtract(b) ==
    /\ pc = "extract"
    /\ LET r == extract_sections(b)
       IN  /\ calls' = Append(calls, Call("extract_sections", -1, r))
           /\ IF r.t = "raise"
              THEN Respond(500) /\ UNCHANGED sections
              ELSE IF ~Truthy(r.v)
              THEN Respond(400) /\ sections' = r.v
              ELSE IF r.v.shape # "list"
              THEN Respond(500) /\ sections' = r.v
              ELSE /\ sections' = r.v
                   /\ pc' = "cards"
                   /\ UNCHANGED result
    /\ UNCHANGED <<Untouched, article, section_index, all_cards, all_mindmaps, all_pyqs>>

\* section_cards = create_cards(content=section_text); all_cards.extend(...)
ApiCards(b) ==
    /\ pc = "cards"
    /\ LET r == create_cards(b)
       IN  /\ calls' = Append(calls, Call("create_cards", section_index, r))
           /\ IF r.t = "raise"
              THEN Respond(500) /\ UNCHANGED all_cards
              ELSE /\ all_cards' = IF r.v.shape = "list"
                                    THEN all_cards \o r.v.items ELSE all_cards
                   /\ pc' = "mindmap"
                   /\ UNCHANGED result
    /\ UNCHANGED <<Untouched, article, sections, section_index, all_mindmaps, all_pyqs>>

\* mindmap = create_mindmap(content=section_text); all_mindmaps.append(mindmap)
ApiMindmap(b) ==
    /\ pc = "mindmap"
    /\ LET r == create_mindmap(b)
       IN  /\ calls' = Append(calls, Call("create_mindmap", section_index, r))
           /\ IF r.t = "raise"
              THEN Respond(500) /\ UNCHANGED all_mindmaps
              ELSE /\ all_mindmaps' = Append(all_mindmaps, r.v)
                   /\ pc' = "pyq"
                   /\ UNCHANGED result
    /\ UNCHANGED <<Untouched, article, sections, section_index, all_cards, all_pyqs>>

\* The questions of a part of pyq, when pyq is a dict that holds a list there.
PartItems(pyq, part) ==
    IF pyq.shape = "dict" /\ part \in pyq.keys /\ pyq[part].shape = "list"
    THEN pyq[part].items
    ELSE <<>>

\* pyq = create_pyq(content=section_text), the two extend, and the next
\* section or the end of the loop.
ApiPyq(b) ==
    /\ pc = "pyq"
    /\ LET r == create_pyq(b)
       IN  /\ calls' = Append(calls, Call("create_pyq", section_index, r))
           /\ IF r.t = "raise"
              THEN Respond(500) /\ UNCHANGED <<all_pyqs, section_index>>
              ELSE /\ all_pyqs' = [prelims |-> all_pyqs.prelims \o PartItems(r.v, "prelims"),
                                    mains |-> all_pyqs.mains \o PartItems(r.v, "mains")]
                   /\ IF section_index + 1 < Len(sections.items)
                      THEN section_index' = section_index + 1 /\ pc' = "cards"
                      ELSE pc' = "save" /\ UNCHANGED section_index
                   /\ UNCHANGED result
    /\ UNCHANGED <<Untouched, article, sections, all_cards, all_mindmaps>>

\* success = save_daily_content(date=..., sections=..., cards=..., mindmap=...,
\* pyq=...): the call leaves out overall_review, which save_daily_content
\* requires, so that it raises TypeError before anything is written; the
\* handler answers 500.
ApiSave ==
    /\ pc = "save"
    /\ calls' = Append(calls, Call("save_daily_content", -1, Raise("TypeError")))
    /\ Respond(500)
    /\ UNCHANGED <<Untouched, article, sections, section_index, all_cards,
                   all_mindmaps, all_pyqs>>

NextApi ==
    \/ \E ok \in AllOrNone : ApiScrape(ok)
    \/ \E b \in Behaviours(SampleTexts, SectionDocs(0)) : ApiExtract(b)
    \/ \E b \in Behaviours(GoodTexts, AggCardDocs(0)) : ApiCards(b)
    \/ \E b \in Behaviours(GoodTexts, AggMindmapDocs(0)) : ApiMindmap(b)
    \/ \E b \in Behaviours(GoodTexts, AggPyqDocs(0)) : ApiPyq(b)
    \/ ApiSave

\* A request POST /generate/13-10-2025 has arrived.
InitApi == Init

SpecApi == InitApi /\ [][NextApi]_vars

(***************************************************************************)
(* Calls of services/db_service.py taken alone, on a store that holds the  *)
(* records of earlier runs for some dates: a save followed by a read of    *)
(* the same date, and a listing of the dates.                              *)
(***************************************************************************)
\* What an earlier run stored for a date.
OldArgs(d) ==
    [date |-> d, sections |-> JList(<<Sec(1, AllKeys, 0)>>),
     cards |-> JList(<<Item(1, 0)>>), mindmap |-> [mindmaps |-> <<Item(1, 0)>>],
     pyq |-> PyqDict({"prelims", "mains"}, JList(<<Item(1, 0)>>),
                     JList(<<Item(1, 0)>>)),
     overall_review |-> [total_issues |-> 1, total_corrections |-> 1,
                         average_accuracy |-> [num |-> 90, den |-> 4]]]

\* The corrected questions of a run: with both parts, with one, an empty
\* object, and a value that is no object.
SavedPyqs ==
    {PyqDict({"prelims", "mains"}, JList(<<Item(2, 0)>>), JList(<<>>)),
     PyqDict({"prelims"}, JList(<<Item(2, 0)>>), JList(<<>>)),
     PyqDict({}, JList(<<>>), JList(<<>>)),
     PyqOther}

\* The arguments of a call of save_daily_content.
SaveArgs ==
    {[date |-> d, sections |-> secs, cards |-> JList(<<Item(2, 0)>>),
      mindmap |-> [mindmaps |-> <<Item(2, 0)>>], pyq |-> pyq,
      overall_review |-> [total_issues |-> 0, total_corrections |-> 0,
                          average_accuracy |-> [num |-> 400, den |-> 4]]] :
        d \in RunDates, secs \in {JList(<<>>), JList(<<Sec(2, AllKeys, 0)>>)},
        pyq \in SavedPyqs}

InitStore ==
    /\ InitLocals
    /\ files = NoFiles
    /\ runs = <<>>
    /\ \/ \E args \in SaveArgs, store_ok \in BOOLEAN, read_ok \in BOOLEAN :
            rc = [content_type |-> "round_trip", content |-> args,
                  b |-> [store_ok |-> store_ok, read_ok |-> read_ok],
                  saved |-> Pending, ret |-> Pending]
       \/ \E read_ok \in BOOLEAN :
            rc = [content_type |-> "get_all_dates", content |-> JOther(FALSE),
                  b |-> [store_ok |-> TRUE, read_ok |-> read_ok],
                  saved |-> Pending, ret |-> Pending]

\* A save of an earlier run for date d, before the calls looked at.
EarlierSave(d) ==
    /\ rc.saved = Pending
    /\ rc.ret = Pending
    /\ ~db[d].exists
    /\ LET a == OldArgs(d)
       IN  db' = save_daily_content(db, a.date, a.sections, a.cards, a.mindmap,
                                    a.pyq, a.overall_review, clock, TRUE).db
    /\ UNCHANGED <<Locals, rc, clock, writes, files, runs>>

\* save_daily_content(date, sections, cards, mindmap, pyq, overall_review)
SaveDailyContent ==
    /\ rc.content_type = "round_trip"
    /\ rc.saved = Pending
    /\ LET a == rc.content
           saved == save_daily_content(db, a.date, a.sections, a.cards, a.mindmap,
                                       a.pyq, a.overall_review, clock, rc.b.store_ok)
       IN  /\ db' = saved.db
           /\ rc' = [rc EXCEPT !.saved = Return(saved.success)]
    /\ UNCHANGED <<Locals, clock, writes, files, runs>>

\* get_daily_content(date), after the save
GetDailyContent ==
    /\ rc.content_type = "round_trip"
    /\ rc.saved # Pending
    /\ rc.ret = Pending
    /\ rc' = [rc EXCEPT !.ret = get_daily_content(db, rc.content.date, rc.b.read_ok)]
    /\ UNCHANGED <<Locals, clock, db, writes, files, runs>>

\* get_all_dates()
GetAllDates ==
    /\ rc.content_type = "get_all_dates"
    /\ rc.ret = Pending
    /\ rc' = [rc EXCEPT !.ret = Return(get_all_dates(db, rc.b.read_ok))]
    /\ UNCHANGED <<Locals, clock, db, writes, files, runs>>

NextStore ==
    \/ \E d \in DateKeys : EarlierSave(d)
    \/ SaveDailyContent
    \/ GetDailyContent
    \/ GetAllDates

SpecStore == InitStore /\ [][NextStore]_vars

(***************************************************************************)
(* The end of an attempt for a date that an earlier run may have stored a  *)
(* record for, entered after review calls that returned the questions with *)
(* both parts, with one part or with none.                                 *)
(***************************************************************************)
\* What review_pyq may have returned for the questions of the attempt.
PyqReviewed2(pyq) ==
    {ReviewDict({"corrected_pyq", "review_notes"}, corrected, GoodNotes("quality_score")) :
        corrected \in {RevisedPyq(pyq),
                       PyqDict({"prelims"}, RevisedList(pyq.prelims), JList(<<>>)),
                       PyqDict({"mains"}, JList(<<>>), RevisedList(pyq.mains)),
                       PyqDict({}, JList(<<>>), JList(<<>>))}}

\* The state after the last review call of the first attempt over n
\* sections whose generators returned one card, one mind map and one
\* question of each part per section.
InitRerun ==
    \E n \in 1..MaxSections :
        /\ date = "13-10-2025"
        /\ attempt = 0
        /\ pc = "finish"
        /\ article = scrape_all_articles([site \in Sites |-> TRUE]).v
        /\ sections = JList([i \in 1..n |-> Sec(i, AllKeys, 0)])
        /\ section_index = n - 1
        /\ all_cards = [i \in 1..n |->
                          Tagged(<<Item(2, 0)>>, i - 1, SectionTitle(sections.items[i], i - 1))[1]]
        /\ all_mindmaps = [i \in 1..n |->
                              Tagged(<<Item(2, 0)>>, i - 1, SectionTitle(sections.items[i], i - 1))[1]]
        /\ all_pyqs = [prelims |-> all_cards, mains |-> all_cards]
        /\ \E rs \in Reviewed("corrected_sections", "completeness_score", sections),
              rp \in PyqReviewed2(PyqContent) :
                results = [sections |-> rs,
                           cards |-> ReviewDict({"corrected_cards", "review_notes"},
                                                RevisedList(CardsContent),
                                                GoodNotes("quality_score")),
                           pyq |-> rp,
                           mindmaps |-> [i \in 1..n |->
                                ReviewDict({"corrected_mindmap", "review_notes"},
                                           RevisedItem(all_mindmaps[i]),
                                           GoodNotes("structure_score"))]]
        /\ result = Running
        /\ clock = RETRY_DELAY
        /\ \E stored \in BOOLEAN :
                db = IF stored
                     THEN LET a == OldArgs(date)
                          IN  save_daily_content([d \in DateKeys |-> Absent], a.date,
                                                 a.sections, a.cards, a.mindmap, a.pyq,
                                                 a.overall_review, 0, TRUE).db
                     ELSE [d \in DateKeys |-> Absent]
        /\ history = <<[fetch |-> "ret", at |-> RETRY_DELAY, generated |-> TRUE]>>
        /\ returned = [create_cards |-> [i \in 1..n |-> JList(<<Item(2, 0)>>)],
                       create_mindmap |-> [i \in 1..n |-> Item(2, 0)],
                       create_pyq |-> [i \in 1..n |->
                            PyqDict({"prelims", "mains"}, JList(<<Item(2, 0)>>),
                                    JList(<<Item(2, 0)>>))]]
        /\ writes = 0
        /\ failure = NoFailure
        /\ calls = CallsBeforeFinish(n)
        /\ rc = NoCall
        /\ files = NoFiles
        /\ runs = <<>>

NextRerun == \E store_ok \in BOOLEAN : Finish(store_ok)

SpecRerun == InitRerun /\ [][NextRerun]_vars

FetchOutcomes == [i \in 1..Len(history) |-> history[i].fetch]

EveryFetchFailed == \A i \in 1..Len(history) : history[i].fetch = "raise"

\* C1: when the fetch fails in every attempt, the fetch is invoked exactly
\* MAX_RETRIES times, RETRY_DELAY passes between two consecutive attempts and
\* none after the last, and the run returns None.
C1_FetchAlwaysFails ==
    EveryFetchFailed =>
        /\ Len(history) <= MAX_RETRIES
        /\ \A i \in 1..Len(history) : history[i].at = RETRY_DELAY * (i - 1)
        /\ pc = "done" => /\ Len(history) = MAX_RETRIES
                          /\ clock = history[MAX_RETRIES].at
                          /\ result = PyNone

C1_Witness ==
    /\ pc = "done"
    /\ FetchOutcomes = <<"raise", "raise", "raise">>
    /\ clock = 2 * RETRY_DELAY

\* The calls of the attempt all returned and the last one is the store write,
\* which went through.
LaterStagesSucceeded ==
    /\ \A i \in 1..Len(calls) : calls[i].outcome = "ret"
    /\ calls[Len(calls)].fn = "save_daily_content"
    /\ writes = 1

C2_State ==
    /\ (pc = "done" /\ Len(history) >= 2
            /\ history[1].fetch = "raise" /\ history[2].fetch = "raise") =>
        /\ Len(history) = MAX_RETRIES
        /\ (history[3].fetch = "ret" /\ LaterStagesSucceeded) =>
                /\ result.t = "summary"
                /\ result.date = date
    /\ result.t = "summary" => pc = "done" /\ Len(history) = attempt + 1

\* C2: when the fetch fails in the first two attempts and works in the third,
\* and the later stages of the third succeed, the run returns the summary
\* after exactly 3 fetches, and nothing runs once the run has ended.
C2_FetchFailsTwice == [][C2_State' /\ pc # "done"]_vars

C2_Witness ==
    /\ pc = "done"
    /\ FetchOutcomes = <<"raise", "raise", "ret">>
    /\ LaterStagesSucceeded
    /\ result.t = "summary"

FailureKinds == {"exception", "empty", "save_false"}

\* C3: a failure of any of the three kinds leads, in an attempt that is not
\* the last, to the delay and then to a new attempt that starts at the fetch;
\* in the last attempt it makes the run return None.
C3_FailureRetriesOrEnds ==
    [][/\ failure'.kind \in FailureKinds =>
            IF attempt' < MAX_RETRIES - 1
            THEN pc' = "sleep" /\ result' = Running
            ELSE pc' = "done" /\ result' = PyNone
       /\ pc = "sleep" => /\ pc' = "fetch"
                          /\ attempt' = attempt + 1
                          /\ clock' = clock + RETRY_DELAY]_vars

C3_Witness ==
    /\ failure = Failed("save_false", "save")
    /\ attempt = 0
    /\ pc = "sleep"

\* The attempts that stamped the items of a list.
Stamps(items) == {items[k].att : k \in 1..Len(items)}

\* The review results review_all_content holds at this point.
SectionsReviewed == pc \in {"review_cards", "review_pyq", "review_mindmap", "finish"}
CardsReviewed == pc \in {"review_pyq", "review_mindmap", "finish"}
PyqReviewed == pc \in {"review_mindmap", "finish"}

AggregateStamps ==
    Stamps(sections.items) \cup Stamps(all_cards) \cup Stamps(all_mindmaps)
        \cup Stamps(all_pyqs.prelims) \cup Stamps(all_pyqs.mains)

ResultStamps ==
    (IF SectionsReviewed THEN Stamps(results.sections.corrected.items) ELSE {})
        \cup (IF CardsReviewed THEN Stamps(results.cards.corrected.items) ELSE {})
        \cup (IF PyqReviewed
              THEN Stamps(results.pyq.corrected.prelims.items)
                       \cup Stamps(results.pyq.corrected.mains.items)
              ELSE {})
        \cup (IF PyqReviewed
              THEN {results.mindmaps[k].corrected.att : k \in 1..Len(results.mindmaps)}
              ELSE {})

RecordStamps(rec) ==
    Stamps(rec.sections.items) \cup Stamps(rec.cards.items)
        \cup Stamps(rec.mindmap.mindmaps)
        \cup Stamps(rec.pyq.prelims.items) \cup Stamps(rec.pyq.mains.items)

InAttempt ==
    pc \in {"cards", "mindmap", "pyq", "review_sections", "review_cards",
            "review_pyq", "review_mindmap", "finish"}

C5_NoExceptionLeaves ==
    /\ result.t \in {"running", "None", "summary"}
    /\ pc = "done" <=> result.t \in {"None", "summary"}

\* A last attempt that ended with an exception raised while the results were
\* read.
C5_Witness ==
    /\ pc = "done"
    /\ result = PyNone
    /\ failure = Failed("exception", "unpack")

RecordFields == {"date", "sections", "cards", "mindmap", "pyq", "overall_review"}

\* C6: as claimed, a run that returns None has written nothing, a run that
\* returns the summary has written once, and that write holds the six fields
\* of the attempt that returned.
C6_AllOrNothing ==
    /\ (pc = "done" /\ result = PyNone) => writes = 0 /\ ~db[date].exists
    /\ (pc = "done" /\ result.t = "summary") =>
        /\ writes = 1
        /\ db[date].exists
        /\ RecordFields \subseteq DOMAIN db[date].data
        /\ db[date].data.created_at = RETRY_DELAY * attempt

\* A run that returned None and left a record in the store.
C6_Witness ==
    /\ pc = "done"
    /\ result = PyNone
    /\ writes >= 1
    /\ db[date].exists

Generators == {"create_cards", "create_mindmap", "create_pyq"}
Reviewers == {"review_sections", "review_cards", "review_pyq", "review_mindmap"}

Stage(fn) ==
    CASE fn = "scrape_all_articles" -> 1
      [] fn = "extract_sections" -> 2
      [] fn \in Generators -> 3
      [] fn \in Reviewers -> 4
      [] fn = "save_daily_content" -> 5

CallsOf(fn) == {i \in 1..Len(calls) : calls[i].fn = fn}

\* C7: in the calls of one attempt the stages never go back; a generator is
\* called only after extract_sections returned a non-empty list, a reviewer
\* only after the three generators returned for every section, the store
\* write only after every review call returned; fetch, extraction and store
\* write happen at most once.
C7_StagesRunForward ==
    /\ \A i \in 1..(Len(calls) - 1) : Stage(calls[i].fn) <= Stage(calls[i + 1].fn)
    /\ \A fn \in {"scrape_all_articles", "extract_sections", "save_daily_content",
                  "review_sections", "review_cards", "review_pyq"} :
            Cardinality(CallsOf(fn)) <= 1
    /\ \A i \in 1..Len(calls) :
        /\ Stage(calls[i].fn) = 3 =>
            /\ \E j \in 1..(i - 1) :
                    calls[j].fn = "extract_sections" /\ calls[j].outcome = "ret"
            /\ sections.shape = "list" /\ sections.items # <<>>
        /\ Stage(calls[i].fn) = 4 =>
            \A g \in Generators : \A k \in 0..(Len(sections.items) - 1) :
                \E j \in 1..(i - 1) : calls[j] = [fn |-> g, index |-> k, outcome |-> "ret"]
        /\ Stage(calls[i].fn) = 5 =>
            /\ \A j \in 1..(i - 1) : calls[j].outcome = "ret"
            /\ \A fn \in Reviewers \ {"review_mindmap"} : \E j \in 1..(i - 1) : calls[j].fn = fn
            /\ Cardinality(CallsOf("review_mindmap")) = Len(all_mindmaps)

C7_Witness ==
    /\ pc = "done"
    /\ result.t = "summary"
    /\ Len(sections.items) = MaxSections
    /\ calls[Len(calls)].fn = "save_daily_content"

SecondKey(content_type) ==
    CASE content_type = "sections" -> "completeness_score"
      [] content_type = "mindmap" -> "structure_score"
      [] OTHER -> "quality_score"

\* The response has no fenced json block, or its block is no JSON document.
NoUsableBlock(b) ==
    \/ extract_json_block(b.text) = PyNone
    \/ json_loads(extract_json_block(b.text), b.doc).t = "raise"

\* C8: each reviewer, given a response without a fenced json block or with a
\* block that is no JSON, returns the content it was given under its
\* corrected key, with notes that hold both scores at 0, no correction and
\* one issue that names the failure.
C8_ReviewerFallback ==
    (rc.ret.t # "pending" /\ rc.content_type \in ContentTypes
            /\ rc.b.t = "resp" /\ NoUsableBlock(rc.b)) =>
        /\ rc.ret.t = "ret"
        /\ rc.ret.v.keys = {"corrected_" \o rc.content_type, "review_notes"}
        /\ rc.ret.v.corrected = rc.content
        /\ LET notes == rc.ret.v.review_notes
           IN  /\ notes.keys = {"issues_found", "corrections_made", "accuracy_score",
                                SecondKey(rc.content_type)}
               /\ notes.accuracy_score = 0
               /\ notes.second_score = 0
               /\ notes.corrections_made = <<>>
               /\ notes.issues_found \in {<<FAILED_TO_PARSE>>, <<INVALID_JSON>>}

C8_Witness ==
    /\ rc.ret.t = "ret"
    /\ rc.content_type = "pyq"
    /\ rc.b.text = <<FENCE, TAG, TXT, FENCE>>
    /\ rc.ret.v.review_notes.issues_found = <<INVALID_JSON>>

Populated(rr, corrected_key) == {corrected_key, "review_notes"} \subseteq rr.keys

\* C9: as claimed, every review result holds its corrected content and its
\* notes, and no attempt whose review calls all returned fails in the review
\* stage or while the results are read.
C9_ReviewResultsPopulated ==
    /\ SectionsReviewed => Populated(results.sections, "corrected_sections")
    /\ CardsReviewed => Populated(results.cards, "corrected_cards")
    /\ PyqReviewed =>
        /\ Populated(results.pyq, "corrected_pyq")
        /\ \A k \in 1..Len(results.mindmaps) :
                Populated(results.mindmaps[k], "corrected_mindmap")
    /\ (failure.kind = "exception" /\ failure.stage \in {"review", "unpack"}) =>
            calls[Len(calls)].outcome = "raise"

\* An attempt whose review calls all returned and that failed while the
\* results were read.
C9_Witness ==
    /\ failure = Failed("exception", "unpack")
    /\ \A i \in 1..Len(calls) : calls[i].outcome = "ret"

RECURSIVE Concat(_)
Concat(lists) == IF lists = <<>> THEN <<>> ELSE Head(lists) \o Concat(Tail(lists))

\* An item without the section reference the loop adds.
Plain(items) ==
    [k \in 1..Len(items) |->
        [items[k] EXCEPT !.section_index = -1, !.section_title = NoTitle]]

\* What a generator returned, as a list: its items, none if it is no list.
ListOf(v) == IF v.shape = "list" THEN v.items ELSE <<>>
PartOf(pyq, part) ==
    IF pyq.shape = "dict" /\ part \in pyq.keys THEN ListOf(pyq[part]) ELSE <<>>

GenerateStage == pc \in {"cards", "mindmap", "pyq", "review_sections"}

\* C10: all_cards, all_pyqs.prelims and all_pyqs.mains are the lists the
\* generators returned, concatenated in section order, each in its own order
\* and with every item kept; at the end of the stage every section is in.
C10_AggregationKeepsOrder ==
    GenerateStage =>
        /\ Plain(all_cards) =
                Concat([i \in 1..Len(returned.create_cards) |->
                            ListOf(returned.create_cards[i])])
        /\ Plain(all_pyqs.prelims) =
                Concat([i \in 1..Len(returned.create_pyq) |->
                            PartOf(returned.create_pyq[i], "prelims")])
        /\ Plain(all_pyqs.mains) =
                Concat([i \in 1..Len(returned.create_pyq) |->
                            PartOf(returned.create_pyq[i], "mains")])
        /\ pc = "review_sections" =>
                /\ Len(returned.create_cards) = Len(sections.items)
                /\ Len(returned.create_pyq) = Len(sections.items)

C10_Witness ==
    /\ pc = "review_sections"
    /\ Len(sections.items) >= 2
    /\ returned.create_cards[1] = JList(<<Item(2, 0), Item(1, 0)>>)
    /\ returned.create_cards[2] = JList(<<Item(1, 0), Item(1, 0)>>)
    /\ Len(all_cards) >= 4
    /\ Len(all_pyqs.prelims) >= 4
    /\ Len(all_pyqs.mains) >= 2

\* For each item of an aggregate, the index of the section whose generator
\* call returned it: lists[i] is what the call for section i - 1 gave.
Sources(lists) ==
    Concat([i \in 1..Len(lists) |-> [k \in 1..Len(lists[i]) |-> i - 1]])

CardLists == [i \in 1..Len(returned.create_cards) |-> ListOf(returned.create_cards[i])]
PartLists(part) ==
    [i \in 1..Len(returned.create_pyq) |-> PartOf(returned.create_pyq[i], part)]

\* The title the loop attaches for section index: the section's own, or
\* "Section <index + 1>" when the section has none.
TitleFor(index) ==
    IF "title" \in sections.items[index + 1].keys
    THEN [k |-> "given", n |-> sections.items[index + 1].title]
    ELSE [k |-> "default", n |-> index + 1]

\* The items that are objects carry the reference of their section, the
\* others carry none.
ReferencesSet(items, lists) ==
    /\ Len(items) = Len(Sources(lists))
    /\ \A k \in 1..Len(items) :
        IF items[k].shape = "dict"
        THEN /\ items[k].section_index = Sources(lists)[k]
             /\ items[k].section_title = TitleFor(Sources(lists)[k])
        ELSE /\ items[k].section_index = -1
             /\ items[k].section_title = NoTitle

\* Every item carries the index and the title of its section.
ReferencesOnAll(items, lists) ==
    /\ Len(items) = Len(Sources(lists))
    /\ \A k \in 1..Len(items) :
        /\ items[k].section_index = Sources(lists)[k]
        /\ items[k].section_title =
                [k |-> "given", n |-> sections.items[Sources(lists)[k] + 1].title]

\* C11, as claimed: every card, prelims item and mains item carries the
\* index and the title of the section whose generator call returned it.
C11_EveryItemReferenced ==
    GenerateStage =>
        /\ ReferencesOnAll(all_cards, CardLists)
        /\ ReferencesOnAll(all_pyqs.prelims, PartLists("prelims"))
        /\ ReferencesOnAll(all_pyqs.mains, PartLists("mains"))

\* C11, amended: every card, prelims item and mains item that is an object
\* carries the index of the section whose generator call returned it and
\* that section's title, or "Section <index + 1>" when the section has no
\* title; an item that is no object is aggregated without a reference.
C11_ObjectsReferenced ==
    GenerateStage =>
        /\ ReferencesSet(all_cards, CardLists)
        /\ ReferencesSet(all_pyqs.prelims, PartLists("prelims"))
        /\ ReferencesSet(all_pyqs.mains, PartLists("mains"))

\* The end of the stage for two sections without a title, with a card that
\* is no object among the cards of the second.
C11_Witness ==
    /\ pc = "review_sections"
    /\ Len(sections.items) = 2
    /\ "title" \notin sections.items[2].keys
    /\ returned.create_cards[2] = JList(<<NotADict(0), Item(3, 0)>>)
    /\ Len(all_cards) >= 3
    /\ all_cards[Len(all_cards)].section_index = 1
    /\ all_cards[Len(all_cards)].section_title = [k |-> "default", n |-> 2]
    /\ all_pyqs.mains # <<>>

\* C12: all_mindmaps holds one entry per section in section order, the i-th
\* being what create_mindmap returned for section i, an object or not, with
\* the section reference when it is an object.
C12_OneMindmapPerSection ==
    GenerateStage =>
        /\ Len(all_mindmaps) = Len(returned.create_mindmap)
        /\ Plain(all_mindmaps) = returned.create_mindmap
        /\ \A i \in 1..Len(all_mindmaps) :
                all_mindmaps[i].shape = "dict" =>
                    /\ all_mindmaps[i].section_index = i - 1
                    /\ all_mindmaps[i].section_title = TitleFor(i - 1)
        /\ pc \in {"pyq", "review_sections"} => Len(all_mindmaps) = section_index + 1
        /\ pc = "review_sections" => Len(all_mindmaps) = Len(sections.items)

C12_Witness ==
    /\ pc = "review_sections"
    /\ Len(sections.items) = MaxSections
    /\ returned.create_mindmap[1] = NotADict(0)
    /\ returned.create_mindmap[2] = Item(1, 0)
    /\ all_mindmaps[2].section_index = 1

\* C13, as claimed: the record a successful run stored holds as many mind
\* maps as sections.
C13_OneStoredMindmapPerSection ==
    (pc = "done" /\ result.t = "summary") =>
        /\ db[date].exists
        /\ Len(db[date].data.mindmap.mindmaps) = Len(db[date].data.sections.items)

\* A successful run over two sections whose record holds one section and
\* two mind maps.
C13_Witness ==
    /\ pc = "done"
    /\ result.t = "summary"
    /\ Len(sections.items) = 2
    /\ Len(db[date].data.sections.items) = 1
    /\ Len(db[date].data.mindmap.mindmaps) = 2
    /\ result.sections_count = 1
    /\ result.mindmaps_count = 2

\* The review notes of the three collections and of every mind map.
EveryNotes(res) ==
    <<res.sections.review_notes, res.cards.review_notes, res.pyq.review_notes>>
    \o [i \in 1..Len(res.mindmaps) |-> res.mindmaps[i].review_notes]

\* The entries of the list under a key, over all notes: pairs of the index
\* of the notes and of the position in its list.
Entries(res, key) ==
    UNION {{<<i, j>> : j \in 1..Len(EveryNotes(res)[i][key])} :
              i \in {k \in 1..Len(EveryNotes(res)) : key \in EveryNotes(res)[k].keys}}

\* C14: total_issues is the number of entries of issues_found and
\* total_corrections the number of entries of corrections_made over the
\* notes of the sections, of the cards, of the questions and of every
\* reviewed mind map, in the summary returned and in the record stored.
C14_TotalsCountEveryNote ==
    [][(pc = "finish" /\ pc' = "done") =>
          /\ result'.review_summary.total_issues
                = Cardinality(Entries(results, "issues_found"))
          /\ result'.review_summary.total_corrections
                = Cardinality(Entries(results, "corrections_made"))
          /\ db'[date].data.overall_review.total_issues
                = Cardinality(Entries(results, "issues_found"))
          /\ db'[date].data.overall_review.total_corrections
                = Cardinality(Entries(results, "corrections_made"))]_vars

\* A run over two sections that ended with five issues and two corrections.
C14_Witness ==
    /\ pc = "done"
    /\ result.t = "summary"
    /\ result.mindmaps_count = 2
    /\ result.review_summary.total_issues = 5
    /\ result.review_summary.total_corrections = 2

RECURSIVE ScoreTotal(_, _)
\* The accuracy scores of the first n notes added up, a missing score being 0.
ScoreTotal(notes, n) ==
    IF n = 0 THEN 0
    ELSE ScoreTotal(notes, n - 1)
         + (IF "accuracy_score" \in notes[n].keys THEN notes[n].accuracy_score ELSE 0)

\* C15: average_accuracy is the sum of the accuracy scores of all notes
\* over their number, three plus the number of mind maps, each notes
\* object weighing the same.
C15_AverageOverAllNotes ==
    [][(pc = "finish" /\ pc' = "done") =>
          /\ result'.review_summary.average_accuracy
                = [num |-> ScoreTotal(EveryNotes(results), 3 + Len(results.mindmaps)),
                   den |-> 3 + Len(results.mindmaps)]
          /\ db'[date].data.overall_review.average_accuracy
                = result'.review_summary.average_accuracy]_vars

\* A run over two sections whose five notes scored 280 together.
C15_Witness ==
    /\ pc = "done"
    /\ result.t = "summary"
    /\ result.review_summary.average_accuracy = [num |-> 280, den |-> 5]
    /\ result.review_summary.total_issues = 6


\* C16: review_all_content calls review_mindmap once per mind map, in the
\* order of the list: the k-th call is the call for the k-th mind map, the
\* results are as many as the calls made, as many as the mind maps when the
\* loop is over, and the k-th result is the review of the k-th mind map (the
\* mind map itself when the fallback answered, its revision when the reviewer
\* returned one).
C16_MindmapsReviewedInOrder ==
    pc \in {"review_mindmap", "finish"} =>
        /\ Cardinality(CallsOf("review_mindmap")) = Len(results.mindmaps)
        /\ \A i \in CallsOf("review_mindmap") :
                /\ calls[i].outcome = "ret"
                /\ calls[i].index
                     = Cardinality({j \in CallsOf("review_mindmap") : j < i})
        /\ pc = "review_mindmap" => Len(results.mindmaps) < Len(all_mindmaps)
        /\ pc = "finish" => Len(results.mindmaps) = Len(all_mindmaps)
        /\ \A k \in 1..Len(results.mindmaps) :
                /\ "corrected_mindmap" \in results.mindmaps[k].keys =>
                        results.mindmaps[k].corrected
                            \in {all_mindmaps[k], RevisedItem(all_mindmaps[k])}
                /\ results.mindmaps[k].review_notes.issues_found
                        \in {<<FAILED_TO_PARSE>>, <<INVALID_JSON>>} =>
                        results.mindmaps[k].corrected = all_mindmaps[k]

\* Two different mind maps reviewed, the first answered by the fallback, the
\* second revised by the reviewer.
C16_Witness ==
    /\ pc = "finish"
    /\ Len(all_mindmaps) = 2
    /\ all_mindmaps[1] # all_mindmaps[2]
    /\ Len(results.mindmaps) = 2
    /\ results.mindmaps[1].review_notes.issues_found = <<FAILED_TO_PARSE>>
    /\ results.mindmaps[1].corrected = all_mindmaps[1]
    /\ results.mindmaps[2].corrected = RevisedItem(all_mindmaps[2])


\* The text has an opening fence tagged json at i and a fence at j after it.
FencedAt(text, i, j) ==
    /\ i \in 1..Len(text)
    /\ j \in (i + 2)..Len(text)
    /\ text[i] = FENCE
    /\ text[i + 1] = TAG
    /\ text[j] = FENCE

HasBlock(text) == \E i, j \in 1..Len(text) : FencedAt(text, i, j)

\* s is what lies between positions i and j without the whitespace around it.
TrimmedInterior(text, i, j, s) ==
    \E p \in (i + 2)..j : \E q \in (p - 1)..(j - 1) :
        /\ s = SubSeq(text, p, q)
        /\ \A k \in (i + 2)..(p - 1) : text[k] = WS
        /\ \A k \in (q + 1)..(j - 1) : text[k] = WS
        /\ s # <<>> => (text[p] # WS /\ text[q] # WS)

OutcomeFor(b) ==
    CASE rc.content_type = "extract_sections" -> extract_sections(b)
      [] rc.content_type = "create_cards" -> create_cards(b)
      [] rc.content_type = "create_mindmap" -> create_mindmap(b)
      [] rc.content_type = "create_pyq" -> create_pyq(b)
      [] OTHER -> review_and_correct_content(rc.content_type, rc.content, b)

\* C18, as claimed: what a caller of extract_json_block returns or raises
\* for a response whose block is empty differs from what it returns or
\* raises for any response without a block.
C18_AbsentAndEmptyDiffer ==
    (rc.ret # Pending /\ rc.content_type # "extract_json_block" /\ rc.b.t = "resp"
            /\ extract_json_block(rc.b.text) = PyStr(<<>>)) =>
        \A text \in AllTexts :
            extract_json_block(text) = PyNone =>
                rc.ret # OutcomeFor(Response(text, rc.b.doc))

\* A reviewer answered an empty block with the fallback it gives for a
\* response without a block.
C18_Witness ==
    /\ rc.content_type = "cards"
    /\ rc.b.t = "resp"
    /\ rc.b.text = <<FENCE, TAG, FENCE>>
    /\ rc.ret = review_cards(rc.content, Response(<<>>, rc.b.doc))
    /\ rc.ret.v.review_notes.issues_found = <<FAILED_TO_PARSE>>

\* The callers that decode the block without looking at it first tell the
\* two apart.
C18_DecodersDiffer ==
    (rc.ret # Pending /\ rc.content_type \in {"extract_sections"} \cup ParsingGenerators
            /\ rc.b.t = "resp" /\ extract_json_block(rc.b.text) = PyStr(<<>>)) =>
        /\ rc.ret.t = "raise"
        /\ rc.ret.exc \in {"ValueError", "JSONDecodeError"}
        /\ \A text \in AllTexts :
                extract_json_block(text) = PyNone =>
                    OutcomeFor(Response(text, rc.b.doc)) = Raise("TypeError")

\* C19, as claimed: extract_sections, given a response without a fenced
\* json block or with a block that is no JSON, raises ValueError and
\* returns no list.
C19_InvalidOutputIsValueError ==
    (rc.content_type = "extract_sections" /\ rc.ret # Pending /\ rc.b.t = "resp"
            /\ NoUsableBlock(rc.b)) =>
        rc.ret = Raise("ValueError")

\* A response without a block left extract_sections with a TypeError.
C19_Witness ==
    /\ rc.content_type = "extract_sections"
    /\ rc.b.t = "resp"
    /\ rc.b.text = <<TXT, DOC>>
    /\ rc.ret = Raise("TypeError")

\* What holds of the two cases: a block that is no JSON raises ValueError, a
\* missing block TypeError, and neither returns a value.
C19_NoListReturned ==
    (rc.content_type = "extract_sections" /\ rc.ret # Pending /\ rc.b.t = "resp"
            /\ NoUsableBlock(rc.b)) =>
        rc.ret = IF extract_json_block(rc.b.text) = PyNone
                 THEN Raise("TypeError") ELSE Raise("ValueError")

\* C20, as claimed: a list returned by extract_sections has at most
\* MAX_SECTIONS sections.
C20_AtMostEightSections ==
    (rc.content_type = "extract_sections" /\ rc.ret # Pending /\ rc.ret.t = "ret"
            /\ rc.ret.v.shape = "list") =>
        Len(rc.ret.v.items) <= MAX_SECTIONS

\* extract_sections returned the nine sections of the response.
C20_Witness ==
    /\ rc.content_type = "extract_sections"
    /\ rc.ret.t = "ret"
    /\ rc.ret.v = rc.b.doc
    /\ Len(rc.ret.v.items) = MAX_SECTIONS + 1


\* The sites whose scrape went through in the attempt of a run, in the
\* order of website_urls.
Succeeded(run) ==
    SelectSeq([i \in 1..Len(website_urls) |-> i], LAMBDA i : run.scraped[i] = "ok")

\* The run is past scrape_all_articles in its attempt.
PastScrape(run) == Len(run.scraped) = Len(website_urls) /\ run.pc # "join"

\* C21: scrape_all_articles raises exactly when the scrape of every site
\* failed (the request, the writing of the file or its reading); otherwise
\* the article is made of the pages of the sites that went through, as this
\* call fetched them, in the order of website_urls, the others left out.
C21_FetchFailsIffAllSourcesFail ==
    \A r \in DOMAIN runs :
        PastScrape(runs[r]) =>
            /\ runs[r].article = <<>>
                    <=> \A i \in 1..Len(website_urls) : runs[r].scraped[i] = "failed"
            /\ runs[r].article
                    = [k \in 1..Len(Succeeded(runs[r])) |->
                            Page(website_urls[Succeeded(runs[r])[k]], r)]
            /\ runs[r].article = <<>> =>
                    /\ runs[r].pc \in {"sleep", "done"}
                    /\ runs[r].result \in {Running, PyNone}
                    /\ runs[r].content = NoContent

\* The first site failed and left the file of an earlier run in place, the
\* second went through: the article is the page of the second alone.
C21_Witness ==
    /\ Len(runs) = 1
    /\ runs[1].pc = "produce"
    /\ runs[1].scraped = <<"failed", "ok">>
    /\ files[runs[1].date, website_urls[1]] = [exists |-> TRUE,
                                                content |-> Page(website_urls[1], 0)]
    /\ runs[1].article = <<Page(website_urls[2], 1)>>


\* What a JSON object shows: its keys and their values.
View(v) == IF IsMap(v) THEN [k \in v.keys |-> v[k]] ELSE v

\* A save that returned True was followed by a read that went through.
RoundTrip ==
    /\ rc.content_type = "round_trip"
    /\ rc.saved = Return(TRUE)
    /\ rc.ret # Pending
    /\ rc.b.read_ok

\* C22, as claimed: the record read after a save that returned True holds
\* the date, the sections, the cards, the mind maps, the questions and the
\* review metrics that were written.
C22_RoundTrip ==
    RoundTrip =>
        /\ rc.ret.t = "ret"
        /\ \A f \in {"date", "sections", "cards", "mindmap", "overall_review"} :
                rc.ret.v[f] = rc.content[f]
        /\ View(rc.ret.v.pyq) = View(rc.content.pyq)

\* Questions written without their mains part came back with the mains part
\* of the record an earlier run had stored.
C22_Witness ==
    /\ RoundTrip
    /\ rc.content.pyq.keys = {"prelims"}
    /\ rc.ret.v.pyq.keys = {"prelims", "mains"}
    /\ rc.ret.v.pyq.mains = OldArgs(rc.content.date).pyq.mains
    /\ rc.ret.v.pyq.prelims = rc.content.pyq.prelims

\* What holds of the round trip: every field but pyq comes back as written,
\* and pyq does when no record was stored for the date before or when it is
\* written with both parts, as an empty object or as no object.
C22_RoundTripButMergedMaps ==
    RoundTrip =>
        /\ rc.ret.t = "ret"
        /\ \A f \in {"date", "sections", "cards", "mindmap", "overall_review"} :
                rc.ret.v[f] = rc.content[f]
        /\ rc.ret.v.created_at = IsoFormat(clock)
        /\ (rc.content.pyq.keys \in {{}, {"prelims", "mains"}}
                \/ rc.ret.v.pyq.keys = rc.content.pyq.keys) =>
                View(rc.ret.v.pyq) = View(rc.content.pyq)


\* The day a document id names, as the number yyyymmdd.
DayNumber(d) ==
    LET c == Chars(d)
    IN  (c[7] * 1000 + c[8] * 100 + c[9] * 10 + c[10]) * 10000
        + (c[4] * 10 + c[5]) * 100
        + (c[1] * 10 + c[2])

\* A listing of the dates that went through.
Listed ==
    /\ rc.content_type = "get_all_dates"
    /\ rc.ret # Pending
    /\ rc.b.read_ok

\* Every stored date is in the list once, and nothing else.
EachStoredOnce(list) ==
    /\ {list[i] : i \in 1..Len(list)} = {d \in DateKeys : db[d].exists}
    /\ \A i, j \in 1..Len(list) : list[i] = list[j] => i = j

\* C23, as claimed: get_all_dates returns every stored date once, the more
\* recent day before the less recent one.
C23_MostRecentFirst ==
    Listed =>
        /\ EachStoredOnce(rc.ret.v)
        /\ \A i, j \in 1..Len(rc.ret.v) :
                i < j => DayNumber(rc.ret.v[i]) > DayNumber(rc.ret.v[j])

\* The last day of 2024 listed before two days of October 2025.
C23_Witness ==
    /\ Listed
    /\ rc.ret.v = <<"31-12-2024", "14-10-2025", "13-10-2025">>

\* What holds of the list: every stored date once, in descending order of
\* the ids as strings, that is by day of the month first.
C23_DescendingAsStrings ==
    Listed =>
        /\ EachStoredOnce(rc.ret.v)
        /\ \A i, j \in 1..Len(rc.ret.v) :
                i < j => StrLess(rc.ret.v[j], rc.ret.v[i])


\* The handler of POST /generate/{date} has answered.
Answered == pc = "done" /\ result.t = "http"

\* C24, as claimed: when the handler answers, it has started one run of the
\* retrying generate_and_save_content for the date and has called none of
\* the fetch, generation and store steps itself.
C24_AnswersBeforeTheRun ==
    Answered =>
        /\ runs = <<NewRun(date)>>
        /\ calls = <<>>

\* The handler answered 500 after it had fetched, extracted, generated for
\* every section and called the store itself, once each, and no run was
\* started.
C24_Witness ==
    /\ Answered
    /\ result = Http(500)
    /\ runs = <<>>
    /\ Len(sections.items) = MaxSections
    /\ calls[1].fn = "scrape_all_articles"
    /\ calls[Len(calls)] = Call("save_daily_content", -1, Raise("TypeError"))
    /\ Len(calls) = 3 + 3 * MaxSections

\* What holds of the handler: it answers only after its own steps ended, it
\* never retries a step, it starts no run, it writes nothing to the store
\* and it never answers with the success message.
C24_SynchronousAndUnretried ==
    /\ runs = <<>>
    /\ attempt = 0
    /\ db = [d \in DateKeys |-> Absent]
    /\ Cardinality({i \in 1..Len(calls) : calls[i].fn = "scrape_all_articles"}) <= 1
    /\ Answered =>
            /\ calls # <<>>
            /\ result \in {Http(400), Http(500)}
            /\ result = Http(400) =>
                    calls[Len(calls)] = Call("extract_sections", -1, Return(TRUE))


\* The document holds the content of a run.
Holds(doc, c) ==
    /\ doc.exists
    /\ doc.data.sections = c.sections
    /\ doc.data.cards = c.cards
    /\ doc.data.mindmap = [mindmaps |-> c.mindmaps]
    /\ doc.data.pyq = c.pyq
    /\ doc.data.overall_review = c.overall_review

\* C25: nothing keeps two runs for one date apart. A run whose store call
\* goes through writes and returns the success summary whatever another run
\* did or does: the document then holds that run's content in place of what
\* it held, and the other run, its summary included, is left as it was.
C25_SameDateRunsOverwrite ==
    [][\A r \in DOMAIN runs :
            (runs[r].pc = "save" /\ runs'[r].pc # "save" /\ runs'[r].stored) =>
                /\ runs'[r].pc = "done"
                /\ runs'[r].result.t = "summary"
                /\ Holds(db'[runs[r].date], runs[r].content)
                /\ \A q \in DOMAIN runs \ {r} : runs'[q] = runs[q]]_vars

\* Two runs for one date both returned the success summary; the document
\* holds what the second wrote and nothing of what the first wrote.
C25_Witness ==
    /\ Len(runs) = 2
    /\ runs[1].date = runs[2].date
    /\ runs[1].result.t = "summary"
    /\ runs[2].result.t = "summary"
    /\ runs[1].wrote = 1
    /\ runs[2].wrote = 2
    /\ Holds(db[runs[2].date], runs[2].content)
    /\ db[runs[1].date].data.cards # runs[1].content.cards
    /\ runs[1].result.cards_count = 1

\* C26, as claimed: the pages a run has gathered, and so the article it
\* works on, are pages that run fetched itself.
C26_OnlyTheStoreIsShared ==
    \A r \in DOMAIN runs :
        /\ \A i \in 1..Len(runs[r].articles) : runs[r].articles[i].by = r
        /\ \A i \in 1..Len(runs[r].article) : runs[r].article[i].by = r

\* Run 1 is about to store sections made of a page that run 2 fetched.
C26_Witness ==
    /\ Len(runs) = 2
    /\ runs[1].pc = "save"
    /\ runs[1].date = runs[2].date
    /\ runs[1].article = <<Page(website_urls[1], 2)>>
    /\ runs[1].content.sections.items[1].title = runs[1].article

\* What holds of the runs: a page gathered by a run was fetched by a run
\* for the same date, and by the run itself when the runs have two dates.
C26_FilesSharedPerDate ==
    \A r \in DOMAIN runs :
        \A i \in 1..Len(runs[r].articles) :
            /\ runs[runs[r].articles[i].by].date = runs[r].date
            /\ runs[1].date # runs[2].date => runs[r].articles[i].by = r

\* C27: a store write changes no document but the one of the date of the
\* run that writes, and runs for two dates each find, once they returned
\* the summary, their own content in the document of their date.
C27_DistinctDatesDoNotInterfere ==
    [][/\ \A d \in DateKeys :
            db'[d] # db[d] =>
                \E r \in DOMAIN runs :
                    /\ runs[r].date = d
                    /\ runs[r].pc = "save"
                    /\ runs'[r].pc = "done"
                    /\ Holds(db'[d], runs[r].content)
                    /\ \A e \in DateKeys \ {d} : db'[e] = db[e]
       /\ (Len(runs') = 2 /\ runs'[1].date # runs'[2].date) =>
            \A r \in DOMAIN runs' :
                (runs'[r].pc = "done" /\ runs'[r].result.t = "summary") =>
                    Holds(db'[runs'[r].date], runs'[r].content)]_vars

\* Two runs for two dates both returned the summary and each document holds
\* the content of its run.
C27_Witness ==
    /\ Len(runs) = 2
    /\ runs[1].date # runs[2].date
    /\ runs[1].result.t = "summary"
    /\ runs[2].result.t = "summary"
    /\ Holds(db[runs[1].date], runs[1].content)
    /\ Holds(db[runs[2].date], runs[2].content)
    /\ runs[1].content # runs[2].content


\* The number of questions of a part in a stored pyq map.
StoredCount(pyq, part) ==
    IF pyq.shape = "dict" /\ part \in pyq.keys /\ pyq[part].shape = "list"
    THEN Len(pyq[part].items) ELSE 0

\* The summary r counts the fields of the record doc and repeats its review.
Describes(r, doc) ==
    /\ doc.exists
    /\ r.date = doc.data.date
    /\ r.sections_count = Len(doc.data.sections.items)
    /\ r.cards_count = Len(doc.data.cards.items)
    /\ r.mindmaps_count = Len(doc.data.mindmap.mindmaps)
    /\ r.prelims_count = StoredCount(doc.data.pyq, "prelims")
    /\ r.mains_count = StoredCount(doc.data.pyq, "mains")
    /\ r.review_summary.total_issues = doc.data.overall_review.total_issues
    /\ r.review_summary.total_corrections = doc.data.overall_review.total_corrections
    /\ r.review_summary.average_accuracy = doc.data.overall_review.average_accuracy

\* C28: when a run returns its summary, the summary describes the record
\* stored for the date: its date, the sizes of the stored sections, cards,
\* mindmap.mindmaps, pyq.prelims and pyq.mains, and the totals and the
\* average of the stored overall_review.
C28_SummaryDescribesRecord ==
    (pc = "done" /\ result.t = "summary") => Describes(result, db[date])

\* A run over a date stored before returned a summary that counts no mains
\* questions, and the record of the date holds one.
C28_Witness ==
    /\ pc = "done"
    /\ result.t = "summary"
    /\ result.mains_count = 0
    /\ StoredCount(db[date].data.pyq, "mains") = 1
    /\ history[1].generated

\* The summary describes what the attempt handed to save_daily_content: it
\* describes the stored record when the date had no record, and when the
\* reviewed questions have both parts.
C28_SummaryDescribesWhatWasSent ==
    [][(pc = "finish" /\ pc' = "done" /\ result'.t = "summary"
            /\ (~db[date].exists
                    \/ results.pyq.corrected.keys \in {{}, {"prelims", "mains"}}))
        => Describes(result', db'[date])]_vars

\* The objects of a list of questions that carry options.
PrelimQuestions(items) ==
    {items[k] : k \in {j \in 1..Len(items) :
                        items[j].shape = "dict" /\ "options" \in DOMAIN items[j]}}

AnswerAmongOptions(items) ==
    \A q \in PrelimQuestions(items) : q.correct_answer \in q.options

\* C29: every prelims question of the aggregates and of every stored record
\* has a correct_answer that is a key of its own options.
C29_AnswerIsAnOption ==
    /\ AnswerAmongOptions(all_pyqs.prelims)
    /\ \A d \in DateKeys :
            (db[d].exists /\ db[d].data.pyq.shape = "dict"
                    /\ "prelims" \in db[d].data.pyq.keys
                    /\ db[d].data.pyq.prelims.shape = "list")
                => AnswerAmongOptions(db[d].data.pyq.prelims.items)

\* A run has returned its summary, and the record it stored holds a prelims
\* question with options a and b and the answer c.
C29_Witness ==
    /\ pc = "done"
    /\ result.t = "summary"
    /\ db[date].exists
    /\ \E q \in PrelimQuestions(db[date].data.pyq.prelims.items) :
            q.options = {"a", "b"} /\ q.correct_answer = "c"

\* What create_pyq returned is what reaches the aggregates: a question of
\* all_pyqs.prelims has the options and the answer of a question returned
\* for its section.
C29_QuestionsAsReturned ==
    \A q \in PrelimQuestions(all_pyqs.prelims) :
        /\ q.section_index + 1 \in 1..Len(returned.create_pyq)
        /\ \E r \in PrelimQuestions(returned.create_pyq[q.section_index + 1].prelims.items) :
                r.options = q.options /\ r.correct_answer = q.correct_answer

\* The calls of the attempt to the functions of the set fns, in call order.
CallsTo(fns) == SelectSeq(calls, LAMBDA c : c.fn \in fns)

\* The k-th generator call of an attempt, and its k-th review call.
GeneratorOrder == <<"create_cards", "create_mindmap", "create_pyq">>
KthGeneration(k) ==
    [fn |-> GeneratorOrder[((k - 1) % 3) + 1], index |-> (k - 1) \div 3]
KthReview(k) ==
    CASE k = 1 -> [fn |-> "review_sections", index |-> -1]
      [] k = 2 -> [fn |-> "review_cards", index |-> -1]
      [] k = 3 -> [fn |-> "review_pyq", index |-> -1]
      [] OTHER -> [fn |-> "review_mindmap", index |-> k - 4]

\* C30: the generation and review calls of one attempt are made one after
\* the other: a call is made only when every call before it has returned;
\* the generator calls are create_cards, create_mindmap, create_pyq of
\* section 0, then of section 1, and so on; the review calls are
\* review_sections, review_cards, review_pyq, then review_mindmap for the
\* mind maps in the order of the list.
C30_CallsInSequence ==
    /\ \A i \in 1..(Len(calls) - 1) : calls[i].outcome = "ret"
    /\ LET made == CallsTo(Generators)
       IN  \A k \in 1..Len(made) :
                /\ made[k].fn = KthGeneration(k).fn
                /\ made[k].index = KthGeneration(k).index
                /\ made[k].index < Len(sections.items)
    /\ LET made == CallsTo(Reviewers)
       IN  \A k \in 1..Len(made) :
                /\ made[k].fn = KthReview(k).fn
                /\ made[k].index = KthReview(k).index
                /\ made[k].index < Len(all_mindmaps)

\* Every generation and review call of an attempt over MaxSections sections
\* has been made.
C30_Witness ==
    /\ pc = "finish"
    /\ Len(sections.items) = MaxSections
    /\ Len(CallsTo(Generators)) = 3 * MaxSections
    /\ Len(CallsTo(Reviewers)) = 3 + MaxSections

\* The run is over within MAX_RETRIES attempts and MAX_RETRIES - 1 delays.
Terminated ==
    /\ pc = "done"
    /\ result.t \in {"summary", "None"}
    /\ Len(history) <= MAX_RETRIES
    /\ attempt <= MAX_RETRIES - 1
    /\ clock <= (MAX_RETRIES - 1) * RETRY_DELAY

\* C31: when every call returns or raises, the run ends: it returns the
\* summary or None, after at most 3 attempts and at most 2 delays.
C31_RunTerminates == <>[]Terminated

\* The run returned None after three attempts and two delays, the last
\* attempt having got as far as the store write.
C31_Witness ==
    /\ Terminated
    /\ result.t = "None"
    /\ Len(history) = MAX_RETRIES
    /\ clock = (MAX_RETRIES - 1) * RETRY_DELAY
    /\ failure = Failed("save_false", "save")

\* The calls of the attempt that go to the generation client.
ClientFunctions == {"extract_sections"} \cup Generators \cup Reviewers
ClientCalls == {i \in 1..Len(calls) : calls[i].fn \in ClientFunctions}
CallsFor(fn, index) == {i \in CallsOf(fn) : calls[i].index = index}
StoreWriteReached == calls # <<>> /\ calls[Len(calls)].fn = "save_daily_content"

\* C32: an attempt over n sections that reaches the store write has made one
\* extract_sections call, one create_cards, one create_mindmap and one
\* create_pyq call for each section, one review_sections, one review_cards
\* and one review_pyq call, and one review_mindmap call for each mind map:
\* 4n + 4 calls to the client, none of them made twice.
C32_EachCallOnce ==
    StoreWriteReached =>
        LET n == Len(sections.items)
        IN  /\ Cardinality(CallsOf("extract_sections")) = 1
            /\ \A g \in Generators :
                    /\ Cardinality(CallsOf(g)) = n
                    /\ \A k \in 0..(n - 1) : Cardinality(CallsFor(g, k)) = 1
            /\ \A fn \in Reviewers \ {"review_mindmap"} : Cardinality(CallsOf(fn)) = 1
            /\ Len(all_mindmaps) = n
            /\ Cardinality(CallsOf("review_mindmap")) = n
            /\ \A k \in 0..(n - 1) : Cardinality(CallsFor("review_mindmap", k)) = 1
            /\ Cardinality(ClientCalls) = 4 * n + 4

\* A second attempt over MaxSections sections has written its record.
C32_Witness ==
    /\ StoreWriteReached
    /\ pc = "done"
    /\ result.t = "summary"
    /\ attempt = 1
    /\ Len(sections.items) = MaxSections
    /\ Cardinality(ClientCalls) = 4 * MaxSections + 4

\* The step of Finish that stores the record and returns the summary.
Stores == pc = "finish" /\ pc' = "done" /\ result'.t = "summary"

\* The reviewer rr answered with a fallback.
FellBack(rr) ==
    /\ rr.review_notes.shape = "dict"
    /\ rr.review_notes.issues_found \in {<<FAILED_TO_PARSE>>, <<INVALID_JSON>>}

\* The record doc holds the corrected content of the review results res.
HoldsCorrected(doc, res) ==
    /\ doc.exists
    /\ doc.data.sections = res.sections.corrected
    /\ doc.data.cards = res.cards.corrected
    /\ Len(doc.data.mindmap.mindmaps) = Len(res.mindmaps)
    /\ \A k \in 1..Len(res.mindmaps) :
            doc.data.mindmap.mindmaps[k] = res.mindmaps[k].corrected
    /\ View(doc.data.pyq) = View(res.pyq.corrected)

\* C33: the record stored by a successful attempt holds, for the sections,
\* the cards, each mind map and the questions, the corrected content the
\* reviewer returned in that attempt; where a reviewer fell back, it holds
\* the content the aggregation produced.
C33_RecordHoldsCorrected ==
    [][Stores =>
        /\ HoldsCorrected(db'[date], results)
        /\ FellBack(results.sections) => db'[date].data.sections = sections
        /\ FellBack(results.cards) => db'[date].data.cards = CardsContent
        /\ FellBack(results.pyq) => View(db'[date].data.pyq) = View(PyqContent)
        /\ \A k \in 1..Len(results.mindmaps) :
                FellBack(results.mindmaps[k]) =>
                    db'[date].data.mindmap.mindmaps[k] = all_mindmaps[k]]_vars

\* A run over a date stored before has returned its summary; the stored
\* prelims questions are the reviewer's, the stored mains questions are
\* those of the earlier record.
C33_Witness ==
    /\ pc = "done"
    /\ result.t = "summary"
    /\ db[date].data.pyq.keys = {"prelims", "mains"}
    /\ db[date].data.pyq.prelims = RevisedList(JList(all_pyqs.prelims))
    /\ db[date].data.pyq.mains = OldArgs(date).pyq.mains
    /\ db[date].data.pyq.mains # RevisedList(JList(all_pyqs.mains))

\* The first record of a date holds what the reviewers returned, and what
\* the aggregation produced where they fell back; a later record does so
\* for the sections, the cards and the mind maps.
C33_FirstRecordHoldsCorrected ==
    [][Stores =>
        /\ db'[date].data.sections = results.sections.corrected
        /\ db'[date].data.cards = results.cards.corrected
        /\ \A k \in 1..Len(results.mindmaps) :
                db'[date].data.mindmap.mindmaps[k] = results.mindmaps[k].corrected
        /\ ~db[date].exists => HoldsCorrected(db'[date], results)
        /\ FellBack(results.pyq) => View(db'[date].data.pyq) = View(PyqContent)]_vars

\* The attempt ended at the test "if not sections".
EmptyExtraction == failure = Failed("empty", "extract")

\* C34: an attempt whose extraction returned no section has called no
\* generator and no reviewer and has written nothing; it is followed by the
\* delay and a new attempt, or by the return of None when it was the last.
C34_EmptyExtractionOnlyRetries ==
    EmptyExtraction =>
        /\ ~Truthy(sections)
        /\ calls = <<Call("scrape_all_articles", -1, Return(TRUE)),
                     Call("extract_sections", -1, Return(TRUE))>>
        /\ writes = 0
        /\ \A d \in DateKeys : ~db[d].exists
        /\ IF attempt < MAX_RETRIES - 1
           THEN pc = "sleep" /\ result = Running
           ELSE pc = "done" /\ result = PyNone

\* The third attempt extracted an empty list after an attempt that had
\* generated content, and the run returned None.
C34_Witness ==
    /\ EmptyExtraction
    /\ sections = JList(<<>>)
    /\ attempt = MAX_RETRIES - 1
    /\ pc = "done"
    /\ result = PyNone
    /\ \E i \in 1..(Len(history) - 1) : history[i].generated

\* The record doc holds the five fields of the content c.
HoldsAllOf(doc, c) ==
    /\ doc.exists
    /\ doc.data.sections = c.sections
    /\ doc.data.cards = c.cards
    /\ doc.data.mindmap = [mindmaps |-> c.mindmaps]
    /\ View(doc.data.pyq) = View(c.pyq)
    /\ doc.data.overall_review = c.overall_review

BothSucceeded ==
    /\ Len(runs) = 2
    /\ runs[1].date = runs[2].date
    /\ \A r \in 1..2 : runs[r].pc = "done" /\ runs[r].result.t = "summary"

\* The run whose write was applied last.
LastWriter == CHOOSE r \in DOMAIN runs : \A q \in DOMAIN runs : runs[q].wrote <= runs[r].wrote

\* C35: when two runs for one date have both succeeded, the stored
\* document's sections, cards, mindmap, pyq and overall_review are those of
\* one run, the one that wrote last.
C35_RecordOfOneRun ==
    BothSucceeded => HoldsAllOf(db[runs[1].date], runs[LastWriter].content)

\* Two runs for one date have succeeded; the stored prelims questions are
\* those of the run that wrote first, the stored mains questions those of
\* the run that wrote last.
C35_Witness ==
    /\ BothSucceeded
    /\ runs[1].wrote = 1
    /\ runs[2].wrote = 2
    /\ db[runs[1].date].data.pyq.prelims = runs[1].content.pyq.prelims
    /\ db[runs[1].date].data.pyq.mains = runs[2].content.pyq.mains
    /\ db[runs[1].date].data.cards = runs[2].content.cards
    /\ runs[1].content.pyq.keys = {"prelims"}
    /\ runs[2].content.pyq.keys = {"mains"}

\* The fields written whole are those of the last writer, and so are the
\* questions when the last writer's questions have both parts.
C35_ListsOfOneRun ==
    BothSucceeded =>
        LET doc == db[runs[1].date]
            c == runs[LastWriter].content
        IN  /\ doc.data.sections = c.sections
            /\ doc.data.cards = c.cards
            /\ doc.data.mindmap = [mindmaps |-> c.mindmaps]
            /\ doc.data.overall_review = c.overall_review
            /\ c.pyq.keys = PyqParts => View(doc.data.pyq) = View(c.pyq)
            /\ \A part \in c.pyq.keys : doc.data.pyq[part] = c.pyq[part]

\* The step is the return of the generator fn, and what it returned.
ReturnOf(fn) == Len(returned'[fn]) = Len(returned[fn]) + 1
Got(fn) == returned'[fn][Len(returned'[fn])]

\* The attempt goes on after the step.
GoesOn == failure' = NoFailure /\ result' = Running /\ attempt' = attempt

\* What create_pyq returned has no list of questions of the part.
NoPart(pyq, part) ==
    pyq.shape # "dict" \/ part \notin pyq.keys \/ pyq[part].shape # "list"

\* C36: a generator output of the wrong top-level type does not end the
\* attempt. Cards that are no list leave all_cards as it was; questions that
\* are no dict, or whose prelims or mains is no list, leave that part of
\* all_pyqs as it was; a mind map that is no dict is appended as it is,
\* without section reference; the attempt goes on with the next step.
C36_WrongShapeIsSkipped ==
    [][/\ (ReturnOf("create_cards") /\ Got("create_cards").shape # "list") =>
            /\ all_cards' = all_cards
            /\ pc' = "mindmap"
            /\ GoesOn
       /\ (ReturnOf("create_mindmap") /\ Got("create_mindmap").shape # "dict") =>
            /\ all_mindmaps' = Append(all_mindmaps, Got("create_mindmap"))
            /\ all_mindmaps'[Len(all_mindmaps')].section_index = -1
            /\ all_mindmaps'[Len(all_mindmaps')].section_title = NoTitle
            /\ pc' = "pyq"
            /\ GoesOn
       /\ ReturnOf("create_pyq") =>
            /\ \A part \in {"prelims", "mains"} :
                    NoPart(Got("create_pyq"), part) => all_pyqs'[part] = all_pyqs[part]
            /\ (\E part \in {"prelims", "mains"} : NoPart(Got("create_pyq"), part)) =>
                    /\ pc' = AfterSection(section_index, Len(sections.items))
                    /\ GoesOn]_vars

\* The generators of the only section returned a value that is no list, a
\* value that is no dict and a value that is no dict: the aggregates hold
\* the mind map alone and the attempt is at the reviews.
C36_Witness ==
    /\ pc = "review_sections"
    /\ Len(sections.items) = 1
    /\ returned.create_cards = <<JOther(TRUE)>>
    /\ returned.create_mindmap = <<NotADict(0)>>
    /\ returned.create_pyq = <<PyqOther>>
    /\ all_cards = <<>>
    /\ all_mindmaps = <<NotADict(0)>>
    /\ all_pyqs = [prelims |-> <<>>, mains |-> <<>>]
    /\ failure = NoFailure

=============================================================================
